---- MODULE Spec2Model ----
(***************************************************************************)
(* Model of the AIP zkVM verdict proofs (mnemom/smoltbot, zkvm/):          *)
(*   - core/src/types.rs    the canonical enumerations and records         *)
(*   - core/src/verdict.rs  derive_verdict, map_verdict_to_action          *)
(*   - core/src/hash.rs     hash_concerns                                  *)
(*   - methods/guest/src/main.rs  the guest pipeline                       *)
(*   - host/src/prover.rs   prove, verify, receipt (de)serialization       *)
(*   - host/src/server.rs   the proving service and its retry loop         *)
(*                                                                         *)
(* A Rust String is a sequence of characters; a character is a one-letter  *)
(* TLA+ string, or one of the names in MultiByteChars for a character      *)
(* whose UTF-8 encoding takes more than one byte.  String::len and the     *)
(* range slice s[..n] count BYTES, as in Rust.                             *)
(***************************************************************************)
EXTENDS Integers, Sequences, FiniteSets, TLC

VARIABLES
    \* --- the pure functions applied to a drawn concern list ---
    t_concerns,     \* the concern list the functions are applied to
    t_pc,           \* "start" | "derived" | "mapped" | "hashed"
    t_verdict,      \* result of derive_verdict, "none" before the call
    t_action,       \* result of map_verdict_to_action, "none" before the call
    t_hash,         \* result of hash_concerns, "none" before the call
    \* --- one run of the guest program (methods/guest/src/main.rs) ---
    host_input,     \* the GuestInput the host wrote to the executor env
    pc,             \* position of the guest in main()
    input,          \* `input`      (main.rs:26)
    json_str,       \* `json_str`   (main.rs:29)
    response,       \* `response`   (main.rs:32)
    verdict,        \* `verdict`    (main.rs:43)
    action,         \* `action`     (main.rs:46)
    concerns_hash,  \* `concerns_hash` (main.rs:49)
    journal,        \* the journal: the sequence of values committed so far
    panic,          \* the message the guest panicked with, "none" if it did not
    \* --- the proving service (host/src/server.rs) ---
    prover_key,     \* AppState.prover_key: an Option
    verdict_proofs, \* the table verdict_proofs: proof_id -> row
    clock,          \* the store's now()
    requests,       \* the HTTP requests received, each with its handler's position
    tasks,          \* the proving tasks spawned (tokio::spawn), in spawn order
    retry,          \* the retry_loop task: its position and its fetched rows
    \* --- one call of the browser verifier (wasm-verifier/src/lib.rs) ---
    v_pc,           \* "start" | "decoded" | "returned"
    v_receipt_bytes,\* the argument receipt_bytes
    v_image_id_hex, \* the argument image_id_hex
    v_decoded,      \* result of decode_image_id on image_id_hex
    v_result,       \* what verify_receipt returned, or the panic that left it
    \* --- one proof made and verified by the host (host/src/prover.rs) ---
    r_pc,           \* "start" | "proved" | "verified"
    r_input,        \* the five strings given to prove_verdict_derivation
    r_proved,       \* what prove_verdict_derivation returned
    r_direct,       \* verify_verdict_proof of the returned receipt
    r_restored      \* verify_verdict_proof of the receipt after the round trip

vars == <<t_concerns, t_pc, t_verdict, t_action, t_hash,
          host_input, pc, input, json_str, response, verdict, action,
          concerns_hash, journal, panic,
          prover_key, verdict_proofs, clock, requests, tasks, retry,
          v_pc, v_receipt_bytes, v_image_id_hex, v_decoded, v_result,
          r_pc, r_input, r_proved, r_direct, r_restored>>

t_vars == <<t_concerns, t_pc, t_verdict, t_action, t_hash>>
guest_vars == <<host_input, pc, input, json_str, response, verdict, action,
                concerns_hash, journal, panic>>

server_vars == <<prover_key, verdict_proofs, clock, requests, tasks, retry>>

verifier_vars == <<v_pc, v_receipt_bytes, v_image_id_hex, v_decoded, v_result>>

prover_vars == <<r_pc, r_input, r_proved, r_direct, r_restored>>

\* The host proves nothing on its own.
IdleProver ==
    /\ r_pc = "idle"
    /\ r_input = "none"
    /\ r_proved = [tag |-> "none"]
    /\ r_direct = [tag |-> "none"]
    /\ r_restored = [tag |-> "none"]

\* The browser verifier is not called.
IdleVerifier ==
    /\ v_pc = "idle"
    /\ v_receipt_bytes = <<>>
    /\ v_image_id_hex = <<>>
    /\ v_decoded = [tag |-> "none"]
    /\ v_result = [tag |-> "none"]

None == "none"

\* The service is not running.
IdleServer ==
    /\ prover_key = [tag |-> "none"]
    /\ verdict_proofs = <<>>
    /\ clock = 0
    /\ requests = <<>>
    /\ tasks = <<>>
    /\ retry = [pc |-> "idle"]

-----------------------------------------------------------------------------
(* Bounds of the model.                                                    *)

\* longest concern list drawn for derive_verdict / map_verdict_to_action
MaxConcerns == 2
\* longest concern list drawn for hash_concerns
MaxHashConcerns == 1
\* longest concern list inside a drawn analysis document
MaxDocConcerns == 1
MaxShapeConcerns == 2

-----------------------------------------------------------------------------
(* core/src/types.rs                                                       *)

ConcernCategory ==
    {"prompt_injection", "value_misalignment", "autonomy_violation",
     "reasoning_corruption", "deceptive_reasoning", "undeclared_intent"}

Severity == {"low", "medium", "high", "critical"}

Verdict == {"clear", "review_needed", "boundary_violation"}

Action == {"continue", "log_and_continue", "pause_for_review", "deny_and_escalate"}

MAX_EVIDENCE_LENGTH == 200

Concern(category, severity, description, evidence) ==
    [category |-> category, severity |-> severity,
     description |-> description, evidence |-> evidence]

\* Texts the tests use for description and evidence.
TestDescription == <<"t", "e", "s", "t">>
ShortEvidence ==
    <<"s", "u", "s", "p", "i", "c", "i", "o", "u", "s", " ",
      "c", "o", "n", "t", "e", "n", "t">>

\* All sequences over S of length at most n.
SeqUpTo(S, n) == UNION {[1..k -> S] : k \in 0..n}

-----------------------------------------------------------------------------
(* Rust strings: UTF-8, lengths and slice bounds in bytes.                 *)

\* Characters whose UTF-8 encoding is longer than one byte.
MultiByteChars == {"U+00E9", "U+20AC", "U+1F600"}

\* char::len_utf8
Utf8Len(c) ==
    CASE c = "U+00E9" -> 2
      [] c = "U+20AC" -> 3
      [] c = "U+1F600" -> 4
      [] OTHER -> 1

\* The string of n copies of the character c ("x".repeat(n)).
Repeat(c, n) == [i \in 1..n |-> c]

IsMultiByte(c) == c \in MultiByteChars

\* The bytes beyond the first of the characters mb[lo..hi] (by halves, so
\* that long strings do not nest deeply).
RECURSIVE ExtraBytes(_, _, _)
ExtraBytes(mb, lo, hi) ==
    IF lo > hi THEN 0
    ELSE IF lo = hi THEN Utf8Len(mb[lo]) - 1
    ELSE LET mid == (lo + hi) \div 2
         IN  ExtraBytes(mb, lo, mid) + ExtraBytes(mb, mid + 1, hi)

\* Number of bytes of the first k characters of s: one each, and the extra
\* bytes of the multi-byte characters among them.
ByteOffset(s, k) ==
    LET mb == SelectSeq(SubSeq(s, 1, k), IsMultiByte)
    IN  k + ExtraBytes(mb, 1, Len(mb))

\* String::len: the length in bytes.
StrLen(s) == ByteOffset(s, Len(s))

\* The largest k in lo..hi such that the first k characters of s take at most
\* n bytes (the first lo characters do).
RECURSIVE LastCharWithin(_, _, _, _)
LastCharWithin(s, lo, hi, n) ==
    IF lo >= hi THEN lo
    ELSE LET mid == (lo + hi + 1) \div 2
         IN  IF ByteOffset(s, mid) <= n
             THEN LastCharWithin(s, mid, hi, n)
             ELSE LastCharWithin(s, lo, mid - 1, n)

\* Results of an operation that may panic.
Ok(v) == [tag |-> "ok", value |-> v]
Panic(msg) == [tag |-> "panic", message |-> msg]
NoResult == [tag |-> "none"]

\* let v = e; ...: Body of the value of e, which is computed once.
Bind(e, Body(_)) == CHOOSE r \in {Body(v) : v \in {e}} : TRUE

\* &s[..n]: the first n bytes of s; panics unless n is a character boundary
\* of s (str::is_char_boundary).
SliceToBytes(s, n) ==
    IF n > StrLen(s)
    THEN Panic("byte index out of range")
    ELSE LET k == LastCharWithin(s, 0, Len(s), n) IN
         IF ByteOffset(s, k) = n
         THEN Ok(SubSeq(s, 1, k))
         ELSE Panic("byte index is not a char boundary")

\* str::trim_matches(ch): s without its leading and trailing ch.
RECURSIVE trim_matches(_, _)
trim_matches(s, ch) ==
    IF s = <<>> THEN s
    ELSE IF Head(s) = ch THEN trim_matches(Tail(s), ch)
    ELSE IF s[Len(s)] = ch THEN trim_matches(SubSeq(s, 1, Len(s) - 1), ch)
    ELSE s

-----------------------------------------------------------------------------
(* serde_json::to_string, as far as the program uses it.                   *)

\* The wire literal of a unit enum variant under rename_all.
WireName(variant) ==
    CASE variant = "prompt_injection" ->
            <<"p", "r", "o", "m", "p", "t", "_", "i", "n", "j", "e", "c", "t", "i", "o", "n">>
      [] variant = "value_misalignment" ->
            <<"v", "a", "l", "u", "e", "_", "m", "i", "s", "a", "l", "i", "g", "n", "m", "e", "n", "t">>
      [] variant = "autonomy_violation" ->
            <<"a", "u", "t", "o", "n", "o", "m", "y", "_", "v", "i", "o", "l", "a", "t", "i", "o", "n">>
      [] variant = "reasoning_corruption" ->
            <<"r", "e", "a", "s", "o", "n", "i", "n", "g", "_", "c", "o", "r", "r", "u", "p", "t", "i", "o", "n">>
      [] variant = "deceptive_reasoning" ->
            <<"d", "e", "c", "e", "p", "t", "i", "v", "e", "_", "r", "e", "a", "s", "o", "n", "i", "n", "g">>
      [] variant = "undeclared_intent" ->
            <<"u", "n", "d", "e", "c", "l", "a", "r", "e", "d", "_", "i", "n", "t", "e", "n", "t">>
      [] variant = "low" -> <<"l", "o", "w">>
      [] variant = "medium" -> <<"m", "e", "d", "i", "u", "m">>
      [] variant = "high" -> <<"h", "i", "g", "h">>
      [] variant = "critical" -> <<"c", "r", "i", "t", "i", "c", "a", "l">>
      [] variant = "clear" -> <<"c", "l", "e", "a", "r">>
      [] variant = "continue" -> <<"c", "o", "n", "t", "i", "n", "u", "e">>
      [] variant = "log_and_continue" ->
            <<"l", "o", "g", "_", "a", "n", "d", "_", "c", "o", "n", "t", "i", "n", "u", "e">>
      [] variant = "pause_for_review" ->
            <<"p", "a", "u", "s", "e", "_", "f", "o", "r", "_", "r", "e", "v", "i", "e", "w">>
      [] variant = "deny_and_escalate" ->
            <<"d", "e", "n", "y", "_", "a", "n", "d", "_", "e", "s", "c", "a", "l", "a", "t", "e">>
      [] variant = "review_needed" ->
            <<"r", "e", "v", "i", "e", "w", "_", "n", "e", "e", "d", "e", "d">>
      [] variant = "boundary_violation" ->
            <<"b", "o", "u", "n", "d", "a", "r", "y", "_", "v", "i", "o", "l", "a", "t", "i", "o", "n">>

\* Characters serde_json writes as an escape sequence inside a string.
EscapedChars == {"\"", "\\", "\n", "\t"}

EscapeChar(c) ==
    CASE c = "\"" -> <<"\\", "\"">>
      [] c = "\\" -> <<"\\", "\\">>
      [] c = "\n" -> <<"\\", "n">>
      [] c = "\t" -> <<"\\", "t">>
      [] OTHER -> <<c>>

RECURSIVE EscapeFrom(_, _)
EscapeFrom(s, i) ==
    IF i > Len(s) THEN <<>> ELSE EscapeChar(s[i]) \o EscapeFrom(s, i + 1)

\* The contents of a JSON string literal for s.
Escape(s) ==
    IF \A i \in 1..Len(s) : s[i] \notin EscapedChars THEN s ELSE EscapeFrom(s, 1)

\* A JSON string literal.
JsonString(s) == <<"\"">> \o Escape(s) \o <<"\"">>

\* "key":
JsonKey(k) == JsonString(k) \o <<":">>

\* The items joined by commas.
RECURSIVE JoinFrom(_, _)
JoinFrom(items, i) ==
    IF i > Len(items) THEN <<>>
    ELSE IF i = Len(items) THEN items[i]
    ELSE items[i] \o <<",">> \o JoinFrom(items, i + 1)

JsonArray(items) == <<"[">> \o JoinFrom(items, 1) \o <<"]">>
JsonObject(members) == <<"{">> \o JoinFrom(members, 1) \o <<"}">>

KeyCategory == <<"c", "a", "t", "e", "g", "o", "r", "y">>
KeySeverity == <<"s", "e", "v", "e", "r", "i", "t", "y">>
KeyDescription == <<"d", "e", "s", "c", "r", "i", "p", "t", "i", "o", "n">>
KeyEvidence == <<"e", "v", "i", "d", "e", "n", "c", "e">>

-----------------------------------------------------------------------------
(* core/src/verdict.rs                                                     *)

\* The scan of derive_verdict with one of its rules changed; used only to
\* show that the properties below depend on each rule.
RECURSIVE derive_verdict_variant(_, _, _, _)
derive_verdict_variant(concerns, i, has_medium_plus, variant) ==
    IF i > Len(concerns)
    THEN IF has_medium_plus THEN "review_needed" ELSE "clear"
    ELSE LET concern == concerns[i] IN
         IF concern.severity = "critical" /\ variant # "critical_as_high"
         THEN "boundary_violation"
         ELSE IF /\ concern.severity \in
                        (IF variant = "critical_as_high"
                         THEN {"high", "critical"} ELSE {"high"})
                 /\ concern.category \in
                        (CASE variant = "no_value_misalignment" ->
                                {"prompt_injection", "deceptive_reasoning"}
                           [] variant = "every_high" -> ConcernCategory
                           [] OTHER ->
                                {"prompt_injection", "deceptive_reasoning",
                                 "value_misalignment"})
         THEN "boundary_violation"
         ELSE IF variant = "medium_returns" /\ concern.severity = "medium"
         THEN "review_needed"
         ELSE derive_verdict_variant(concerns, i + 1,
                 \/ has_medium_plus
                 \/ concern.severity \in {"medium", "high", "critical"}
                 \/ (variant = "low_counts" /\ concern.severity = "low"),
                 variant)

derive_verdict_critical_as_high(concerns) ==
    derive_verdict_variant(concerns, 1, FALSE, "critical_as_high")
derive_verdict_no_value_misalignment(concerns) ==
    derive_verdict_variant(concerns, 1, FALSE, "no_value_misalignment")
derive_verdict_every_high(concerns) ==
    derive_verdict_variant(concerns, 1, FALSE, "every_high")
derive_verdict_low_counts(concerns) ==
    derive_verdict_variant(concerns, 1, FALSE, "low_counts")
derive_verdict_medium_returns(concerns) ==
    derive_verdict_variant(concerns, 1, FALSE, "medium_returns")

\* The `for concern in concerns` loop of derive_verdict from index i on, with
\* the current value of the local has_medium_plus.
RECURSIVE derive_verdict_loop(_, _, _)
derive_verdict_loop(concerns, i, has_medium_plus) ==
    IF i > Len(concerns)
    THEN IF has_medium_plus THEN "review_needed" ELSE "clear"
    ELSE LET concern == concerns[i] IN
         IF concern.severity = "critical"
         THEN "boundary_violation"
         ELSE IF /\ concern.severity = "high"
                 /\ concern.category \in {"prompt_injection", "deceptive_reasoning"}
         THEN "boundary_violation"
         ELSE IF /\ concern.severity = "high"
                 /\ concern.category = "value_misalignment"
         THEN "boundary_violation"
         ELSE derive_verdict_loop(concerns, i + 1,
                 \/ has_medium_plus
                 \/ concern.severity = "high"
                 \/ concern.severity = "medium")

derive_verdict(concerns) ==
    derive_verdict_loop(concerns, 1, FALSE)

\* map_verdict_to_action with the test for a critical concern made before the
\* match on the verdict.
map_verdict_to_action_critical_first(v, concerns) ==
    IF \E i \in 1..Len(concerns) : concerns[i].severity = "critical"
    THEN "deny_and_escalate"
    ELSE CASE v = "clear" -> "continue"
           [] v = "review_needed" -> "log_and_continue"
           [] v = "boundary_violation" -> "pause_for_review"

map_verdict_to_action(v, concerns) ==
    CASE v = "clear" -> "continue"
      [] v = "review_needed" -> "log_and_continue"
      [] v = "boundary_violation" ->
            LET has_critical ==
                    \E i \in 1..Len(concerns) : concerns[i].severity = "critical"
            IN  IF has_critical THEN "deny_and_escalate" ELSE "pause_for_review"

-----------------------------------------------------------------------------
(* core/src/hash.rs                                                        *)

\* SHA-256 followed by hex::encode, taken as collision-free: the digest is
\* represented by the byte string it was computed from, so two digests are
\* equal exactly when the hashed strings are.
Sha256Hex(bytes) == [sha256_hex_of |-> bytes]

\* The `evidence` local of the closure in hash_concerns (hash.rs:29-33).
TruncatedEvidence(evidence) ==
    IF StrLen(evidence) > MAX_EVIDENCE_LENGTH
    THEN SliceToBytes(evidence, MAX_EVIDENCE_LENGTH)
    ELSE Ok(evidence)

\* serde_json::to_string(&c.category).unwrap_or_default()
\*     .trim_matches('"').to_string(), and the same for severity.
EnumString(variant) ==
    trim_matches(JsonString(WireName(variant)), "\"")

\* The NormalizedConcern built for concern c with the given evidence.
NormalizedConcern(c, evidence) ==
    [category |-> EnumString(c.category),
     severity |-> EnumString(c.severity),
     description |-> c.description,
     evidence |-> evidence]

\* NormalizedConcern serialized with its keys sorted, as a serializer that
\* orders map keys would write it.
NormalizedConcernJsonSortedKeys(n) ==
    JsonObject(<<JsonKey(KeyCategory) \o JsonString(n.category),
                 JsonKey(KeyDescription) \o JsonString(n.description),
                 JsonKey(KeyEvidence) \o JsonString(n.evidence),
                 JsonKey(KeySeverity) \o JsonString(n.severity)>>)

\* #[derive(Serialize)] of NormalizedConcern: the fields in declared order.
NormalizedConcernJson(n) ==
    JsonObject(<<JsonKey(KeyCategory) \o JsonString(n.category),
                 JsonKey(KeySeverity) \o JsonString(n.severity),
                 JsonKey(KeyDescription) \o JsonString(n.description),
                 JsonKey(KeyEvidence) \o JsonString(n.evidence)>>)

\* serde_json::to_string(&normalized)
NormalizedJson(normalized) ==
    JsonArray([i \in 1..Len(normalized) |-> NormalizedConcernJson(normalized[i])])

hash_concerns(concerns) ==
    LET evidence == [i \in 1..Len(concerns) |-> TruncatedEvidence(concerns[i].evidence)]
    IN  IF \E i \in 1..Len(concerns) : evidence[i].tag = "panic"
        THEN Panic("byte index 200 is not a char boundary")
        ELSE LET normalized ==
                     [i \in 1..Len(concerns) |->
                         NormalizedConcern(concerns[i], evidence[i].value)]
                 json == NormalizedJson(normalized)
             IN  Ok(Sha256Hex(json))

-----------------------------------------------------------------------------
(* serde_json::from_str::<AnalysisResponse>, on the texts the model draws. *)

KeyVerdict == <<"v", "e", "r", "d", "i", "c", "t">>
KeyConcerns == <<"c", "o", "n", "c", "e", "r", "n", "s">>
KeyConfidence == <<"c", "o", "n", "f", "i", "d", "e", "n", "c", "e">>
KeyReasoningSummary ==
    <<"r", "e", "a", "s", "o", "n", "i", "n", "g", "_", "s", "u", "m", "m", "a", "r", "y">>

\* A JSON document is described by what its text says: every string as
\* written, the number as its literal, and for each concern whether the
\* evidence member is there (Ok(text)) or left out (NoResult).
JsonConcern(category, severity, description, evidence) ==
    [category |-> category, severity |-> severity,
     description |-> description, evidence |-> evidence]

JsonDocument(stated, concerns) ==
    [verdict |-> stated[1], concerns |-> concerns,
     confidence |-> stated[2], reasoning_summary |-> stated[3]]

\* The compact JSON text of a concern object.
ConcernText(jc) ==
    JsonObject(
        <<JsonKey(KeyCategory) \o JsonString(jc.category),
          JsonKey(KeySeverity) \o JsonString(jc.severity),
          JsonKey(KeyDescription) \o JsonString(jc.description)>>
        \o (IF jc.evidence.tag = "ok"
            THEN <<JsonKey(KeyEvidence) \o JsonString(jc.evidence.value)>>
            ELSE <<>>))

\* The compact JSON text of an analysis document.
DocumentText(j) ==
    JsonObject(
        <<JsonKey(KeyVerdict) \o JsonString(j.verdict),
          JsonKey(KeyConcerns) \o
              JsonArray([i \in 1..Len(j.concerns) |-> ConcernText(j.concerns[i])]),
          JsonKey(KeyConfidence) \o j.confidence,
          JsonKey(KeyReasoningSummary) \o JsonString(j.reasoning_summary)>>)

\* What the drawn documents state: verdict, confidence, reasoning_summary.
StatedParts ==
    {<<<<"c", "l", "e", "a", "r">>, <<"0", ".", "9">>, <<"o", "k">>>>,
     <<<<"b", "o", "u", "n", "d", "a", "r", "y", "_",
         "v", "i", "o", "l", "a", "t", "i", "o", "n">>, <<"0", ".", "9">>, <<"o", "k">>>>,
     <<<<"}", "{">>, <<"0", ".", "9">>, <<"o", "k">>>>,
     <<<<"c", "l", "e", "a", "r">>, <<"1", ".", "0">>, <<"o", "k">>>>,
     <<<<"c", "l", "e", "a", "r">>, <<"0", ".", "9">>, <<>>>>}

\* Evidence left out, short evidence, evidence that the guest truncates, and
\* evidence whose byte 200 lies inside a character.
DocEvidences ==
    {NoResult,
     Ok(ShortEvidence),
     Ok(Repeat("x", MAX_EVIDENCE_LENGTH + 1)),
     Ok(Repeat("x", MAX_EVIDENCE_LENGTH - 1) \o <<"U+00E9">>)}

DocCategorySeverity ==
    {<<"value_misalignment", "low">>,
     <<"autonomy_violation", "high">>,
     <<"prompt_injection", "high">>,
     <<"reasoning_corruption", "critical">>}

\* A concern whose severity is no variant of Severity.
UnknownSeverityConcern ==
    JsonConcern(WireName("prompt_injection"), <<"e", "x", "t", "r", "e", "m", "e">>,
                TestDescription, NoResult)

JsonConcerns ==
    {JsonConcern(WireName(cs[1]), WireName(cs[2]), TestDescription, e) :
        cs \in DocCategorySeverity, e \in DocEvidences}
        \cup {UnknownSeverityConcern}

JsonDocuments ==
    {JsonDocument(st, cl) :
        st \in StatedParts, cl \in SeqUpTo(JsonConcerns, MaxDocConcerns)}

\* The text of every drawn document, with the document.
DocumentTable ==
    {[text |-> DocumentText(j), doc |-> j] : j \in JsonDocuments}

\* The enum variant with the given wire literal, "unknown variant" if none.
VariantOf(literal, variants) ==
    IF \E v \in variants : WireName(v) = literal
    THEN CHOOSE v \in variants : WireName(v) = literal
    ELSE "unknown variant"

\* Deserialize of Concern: evidence has #[serde(default)].
DecodeConcern(jc) ==
    Concern(VariantOf(jc.category, ConcernCategory),
            VariantOf(jc.severity, Severity),
            jc.description,
            IF jc.evidence.tag = "ok" THEN jc.evidence.value ELSE <<>>)

\* Deserialize of AnalysisResponse.
DecodeResponse(j) ==
    [verdict |-> j.verdict,
     concerns |-> [i \in 1..Len(j.concerns) |-> DecodeConcern(j.concerns[i])],
     confidence |-> j.confidence,
     reasoning_summary |-> j.reasoning_summary]

\* serde_json::from_str(&json_str): the response when the text is that of a
\* document whose enum literals are all known, an error otherwise.
from_str(text) ==
    LET rows == {row \in DocumentTable : row.text = text} IN
    IF rows = {}
    THEN Panic("Failed to parse analysis JSON")
    ELSE LET r == DecodeResponse((CHOOSE row \in rows : TRUE).doc) IN
         IF \E i \in 1..Len(r.concerns) :
                \/ r.concerns[i].category = "unknown variant"
                \/ r.concerns[i].severity = "unknown variant"
         THEN Panic("Failed to parse analysis JSON")
         ELSE Ok(r)

-----------------------------------------------------------------------------
(* methods/guest/src/main.rs                                               *)

\* str::find(ch): the first position of ch in s, 0 for None.
find(s, ch) ==
    LET hits == {i \in 1..Len(s) : s[i] = ch} IN
    IF hits = {} THEN 0 ELSE CHOOSE i \in hits : \A j \in hits : i <= j

\* str::rfind(ch): the last position of ch in s, 0 for None.
rfind(s, ch) ==
    LET hits == {i \in 1..Len(s) : s[i] = ch} IN
    IF hits = {} THEN 0 ELSE CHOOSE i \in hits : \A j \in hits : i >= j

\* extract_json with the range input[start..end], which leaves out the last
\* brace.
extract_json_exclusive_end(inp) ==
    LET start == find(inp, "{")
        end == rfind(inp, "}")
    IN  IF start # 0 /\ end # 0 /\ start <= end
        THEN SubSeq(inp, start, end - 1)
        ELSE inp

extract_json(inp) ==
    LET start == find(inp, "{")
        end == rfind(inp, "}")
    IN  IF start # 0 /\ end # 0 /\ start <= end
        THEN SubSeq(inp, start, end)
        ELSE inp

\* A truncation loop that keeps half of MAX_EVIDENCE_LENGTH bytes.
TruncateConcerns_to_half(concerns) ==
    LET cut == [i \in 1..Len(concerns) |->
                   IF StrLen(concerns[i].evidence) > MAX_EVIDENCE_LENGTH
                   THEN SliceToBytes(concerns[i].evidence, MAX_EVIDENCE_LENGTH \div 2)
                   ELSE Ok(concerns[i].evidence)]
    IN  IF \E i \in 1..Len(concerns) : cut[i].tag = "panic"
        THEN Panic("byte index 100 is not a char boundary")
        ELSE Ok([i \in 1..Len(concerns) |->
                    [concerns[i] EXCEPT !.evidence = cut[i].value]])

\* Step 4 of main: the concerns after the truncation loop, or its panic.
TruncateConcerns(concerns) ==
    LET cut == [i \in 1..Len(concerns) |->
                   IF StrLen(concerns[i].evidence) > MAX_EVIDENCE_LENGTH
                   THEN SliceToBytes(concerns[i].evidence, MAX_EVIDENCE_LENGTH)
                   ELSE Ok(concerns[i].evidence)]
    IN  IF \E i \in 1..Len(concerns) : cut[i].tag = "panic"
        THEN Panic("byte index 200 is not a char boundary")
        ELSE Ok([i \in 1..Len(concerns) |->
                    [concerns[i] EXCEPT !.evidence = cut[i].value]])

\* Step 5 with the stated verdict believed when it names a verdict.
GuestVerdictTrusting(resp) ==
    IF \E v \in Verdict : WireName(v) = resp.verdict
    THEN CHOOSE v \in Verdict : WireName(v) = resp.verdict
    ELSE derive_verdict(resp.concerns)

\* Step 5 of main.
GuestVerdict(resp) == derive_verdict(resp.concerns)

\* Step 6 of main.
GuestAction(v, resp) == map_verdict_to_action(v, resp.concerns)

\* Step 7 of main.
GuestConcernsHash(resp) == hash_concerns(resp.concerns)

\* Step 8 with two of the pass-through fields exchanged.
GuestOutputSwapped(v, a, h, inp) ==
    [verdict |-> v, action |-> a, concerns_hash |-> h,
     thinking_hash |-> inp.thinking_hash,
     card_hash |-> inp.values_hash,
     values_hash |-> inp.card_hash,
     model |-> inp.model]

\* Step 8 of main: the GuestOutput that is committed.
GuestOutput(v, a, h, inp) ==
    [verdict |-> v, action |-> a, concerns_hash |-> h,
     thinking_hash |-> inp.thinking_hash,
     card_hash |-> inp.card_hash,
     values_hash |-> inp.values_hash,
     model |-> inp.model]

\* let input: GuestInput = env::read();
GuestRead ==
    /\ pc = "start"
    /\ input' = host_input
    /\ pc' = "read"
    /\ UNCHANGED <<host_input, json_str, response, verdict, action,
                   concerns_hash, journal, panic>>
    /\ UNCHANGED t_vars
    /\ UNCHANGED <<server_vars, verifier_vars, prover_vars>>

\* let json_str = extract_json(&input.analysis_json);
GuestExtractJson ==
    /\ pc = "read"
    /\ json_str' = extract_json(input.analysis_json)
    /\ pc' = "extracted"
    /\ UNCHANGED <<host_input, input, response, verdict, action,
                   concerns_hash, journal, panic>>
    /\ UNCHANGED t_vars
    /\ UNCHANGED <<server_vars, verifier_vars, prover_vars>>

\* let mut response = serde_json::from_str(&json_str).expect(...);
GuestParse ==
    /\ pc = "extracted"
    /\ LET r == from_str(json_str) IN
       IF r.tag = "ok"
       THEN /\ response' = r.value
            /\ pc' = "parsed"
            /\ UNCHANGED panic
       ELSE /\ panic' = r.message
            /\ pc' = "aborted"
            /\ UNCHANGED response
    /\ UNCHANGED <<host_input, input, json_str, verdict, action,
                   concerns_hash, journal>>
    /\ UNCHANGED t_vars
    /\ UNCHANGED <<server_vars, verifier_vars, prover_vars>>

\* for concern in response.concerns.iter_mut() { ... }
GuestTruncate ==
    /\ pc = "parsed"
    /\ LET r == TruncateConcerns(response.concerns) IN
       IF r.tag = "ok"
       THEN /\ response' = [response EXCEPT !.concerns = r.value]
            /\ pc' = "truncated"
            /\ UNCHANGED panic
       ELSE /\ panic' = r.message
            /\ pc' = "aborted"
            /\ UNCHANGED response
    /\ UNCHANGED <<host_input, input, json_str, verdict, action,
                   concerns_hash, journal>>
    /\ UNCHANGED t_vars
    /\ UNCHANGED <<server_vars, verifier_vars, prover_vars>>

\* let verdict = derive_verdict(&response.concerns);
GuestDeriveVerdict ==
    /\ pc = "truncated"
    /\ verdict' = GuestVerdict(response)
    /\ pc' = "derived"
    /\ UNCHANGED <<host_input, input, json_str, response, action,
                   concerns_hash, journal, panic>>
    /\ UNCHANGED t_vars
    /\ UNCHANGED <<server_vars, verifier_vars, prover_vars>>

\* let action = map_verdict_to_action(&verdict, &response.concerns);
GuestMapAction ==
    /\ pc = "derived"
    /\ action' = GuestAction(verdict, response)
    /\ pc' = "mapped"
    /\ UNCHANGED <<host_input, input, json_str, response, verdict,
                   concerns_hash, journal, panic>>
    /\ UNCHANGED t_vars
    /\ UNCHANGED <<server_vars, verifier_vars, prover_vars>>

\* let concerns_hash = hash_concerns(&response.concerns);
GuestHashConcerns ==
    /\ pc = "mapped"
    /\ LET r == GuestConcernsHash(response) IN
       IF r.tag = "ok"
       THEN /\ concerns_hash' = r.value
            /\ pc' = "hashed"
            /\ UNCHANGED panic
       ELSE /\ panic' = r.message
            /\ pc' = "aborted"
            /\ UNCHANGED concerns_hash
    /\ UNCHANGED <<host_input, input, json_str, response, verdict, action,
                   journal>>
    /\ UNCHANGED t_vars
    /\ UNCHANGED <<server_vars, verifier_vars, prover_vars>>

\* env::commit(&output);
GuestCommit ==
    /\ pc = "hashed"
    /\ journal' = Append(journal, GuestOutput(verdict, action, concerns_hash, input))
    /\ pc' = "committed"
    /\ UNCHANGED <<host_input, input, json_str, response, verdict, action,
                   concerns_hash, panic>>
    /\ UNCHANGED t_vars
    /\ UNCHANGED <<server_vars, verifier_vars, prover_vars>>

\* The whole of main as one function of the input: the committed output, or
\* the panic that ended the run.
guest_main(inp) ==
    Bind(from_str(extract_json(inp.analysis_json)), LAMBDA parsed :
    IF parsed.tag = "panic" THEN parsed
    ELSE Bind(TruncateConcerns(parsed.value.concerns), LAMBDA cut :
         IF cut.tag = "panic" THEN cut
         ELSE LET resp == [parsed.value EXCEPT !.concerns = cut.value]
                  v == GuestVerdict(resp)
                  a == GuestAction(v, resp)
              IN  Bind(GuestConcernsHash(resp), LAMBDA h :
                  IF h.tag = "panic" THEN h
                  ELSE Ok(GuestOutput(v, a, h.value, inp)))))

-----------------------------------------------------------------------------
(* The inputs of the guest.                                                *)

\* What may surround the document in analysis_json: nothing, a markdown code
\* fence (~~~json), text with braces before it, text with a brace after it.
Wrappers ==
    {<<<<>>, <<>>>>,
     <<<<"~", "~", "~", "j", "s", "o", "n", "\n">>, <<"\n", "~", "~", "~">>>>,
     <<<<"s", "e", "e", " ", "{", "x", "}", ":", " ">>, <<>>>>,
     <<<<>>, <<" ", "(", "e", "n", "d", ")", "}">>>>}

\* Texts that hold no document: empty, no brace, only a closing brace, a
\* closing brace before the opening one, a document cut short.
BrokenTexts ==
    {<<>>,
     <<"n", "o">>,
     <<"o", "k", "}">>,
     <<"}", " ", "{">>,
     <<"{", "\"", "v", "e", "r", "d", "i", "c", "t", "\"", ":">>}

AnalysisTexts ==
    {w[1] \o DocumentText(j) \o w[2] : w \in Wrappers, j \in JsonDocuments}
        \cup BrokenTexts

\* thinking_hash, card_hash, values_hash, model: opaque strings.
PassThroughs ==
    {<<"abc123", "def456", "ghi789", "test-model">>,
     <<"", "not hex!", "ghi789", "">>}

GuestInputs ==
    {[analysis_json |-> t, thinking_hash |-> p[1], card_hash |-> p[2],
      values_hash |-> p[3], model |-> p[4]] :
        t \in AnalysisTexts, p \in PassThroughs}

IdlePure ==
    /\ t_concerns = <<>>
    /\ t_pc = "idle"
    /\ t_verdict = None
    /\ t_action = None
    /\ t_hash = NoResult

Init ==
    /\ IdleVerifier
    /\ IdleProver
    /\ host_input \in GuestInputs
    /\ pc = "start"
    /\ input = None
    /\ json_str = None
    /\ response = None
    /\ verdict = None
    /\ action = None
    /\ concerns_hash = None
    /\ journal = <<>>
    /\ panic = None
    /\ IdlePure
    /\ IdleServer

Next ==
    \/ GuestRead
    \/ GuestExtractJson
    \/ GuestParse
    \/ GuestTruncate
    \/ GuestDeriveVerdict
    \/ GuestMapAction
    \/ GuestHashConcerns
    \/ GuestCommit

Spec == Init /\ [][Next]_vars

-----------------------------------------------------------------------------
(* The verdict engine applied to a drawn concern list.                     *)

\* The concerns the tests of verdict.rs build (make_concern): every category
\* and severity, a fixed description and empty evidence.
VerdictConcerns ==
    {Concern(c, s, TestDescription, <<>>) : c \in ConcernCategory, s \in Severity}

IdleGuest ==
    /\ host_input = None
    /\ pc = "idle"
    /\ input = None
    /\ json_str = None
    /\ response = None
    /\ verdict = None
    /\ action = None
    /\ concerns_hash = None
    /\ journal = <<>>
    /\ panic = None

InitVerdict ==
    /\ IdleVerifier
    /\ IdleProver
    /\ t_concerns \in SeqUpTo(VerdictConcerns, MaxConcerns)
    /\ t_pc = "start"
    /\ t_verdict = None
    /\ t_action = None
    /\ t_hash = NoResult
    /\ IdleGuest
    /\ IdleServer

\* let v = derive_verdict(&concerns);
DeriveVerdict ==
    /\ t_pc = "start"
    /\ t_verdict' = derive_verdict(t_concerns)
    /\ t_pc' = "derived"
    /\ UNCHANGED <<t_concerns, t_action, t_hash>>
    /\ UNCHANGED guest_vars
    /\ UNCHANGED <<server_vars, verifier_vars, prover_vars>>

\* let a = map_verdict_to_action(&v, &concerns);
MapVerdictToAction ==
    /\ t_pc = "derived"
    /\ t_action' = map_verdict_to_action(t_verdict, t_concerns)
    /\ t_pc' = "mapped"
    /\ UNCHANGED <<t_concerns, t_verdict, t_hash>>
    /\ UNCHANGED guest_vars
    /\ UNCHANGED <<server_vars, verifier_vars, prover_vars>>

\* let h = hash_concerns(&concerns);   a panic ends the caller
HashConcerns ==
    /\ t_pc = "mapped"
    /\ t_hash' = hash_concerns(t_concerns)
    /\ t_pc' = IF t_hash'.tag = "panic" THEN "panicked" ELSE "hashed"
    /\ UNCHANGED <<t_concerns, t_verdict, t_action>>
    /\ UNCHANGED guest_vars
    /\ UNCHANGED <<server_vars, verifier_vars, prover_vars>>

NextVerdict ==
    \/ DeriveVerdict
    \/ MapVerdictToAction

SpecVerdict == InitVerdict /\ [][NextVerdict]_vars

\* map_verdict_to_action applied to a verdict and a concern list that are
\* drawn independently of each other, as a caller other than the guest may
\* pass them.
InitAction ==
    /\ IdleVerifier
    /\ IdleProver
    /\ t_concerns \in SeqUpTo(VerdictConcerns, MaxConcerns)
    /\ t_pc = "derived"
    /\ t_verdict \in Verdict
    /\ t_action = None
    /\ t_hash = NoResult
    /\ IdleGuest
    /\ IdleServer

NextAction == MapVerdictToAction

SpecAction == InitAction /\ [][NextAction]_vars

-----------------------------------------------------------------------------
(* The pure functions applied to concerns with evidence around the limit.  *)

HashEvidences ==
    {<<>>,
     ShortEvidence,
     Repeat("x", MAX_EVIDENCE_LENGTH - 1),
     Repeat("x", MAX_EVIDENCE_LENGTH),
     Repeat("x", MAX_EVIDENCE_LENGTH + 1),
     Repeat("x", MAX_EVIDENCE_LENGTH) \o <<"y", "z">>,
     Repeat("x", MAX_EVIDENCE_LENGTH) \o <<"U+00E9">>,
     Repeat("x", MAX_EVIDENCE_LENGTH - 1) \o <<"U+00E9">>,
     Repeat("x", MAX_EVIDENCE_LENGTH - 2) \o <<"U+00E9", "x">>,
     Repeat("x", MAX_EVIDENCE_LENGTH - 2) \o <<"U+20AC">>,
     Repeat("U+00E9", MAX_EVIDENCE_LENGTH \div 2),
     Repeat("U+00E9", MAX_EVIDENCE_LENGTH \div 2 + 1)}

HashDescriptions == {TestDescription, <<"a", "\"", "b">>}

HashConcernSet ==
    {Concern(cs[1], cs[2], d, e) :
        cs \in {<<"prompt_injection", "high">>, <<"undeclared_intent", "low">>},
        d \in HashDescriptions, e \in HashEvidences}

InitHash ==
    /\ IdleVerifier
    /\ IdleProver
    /\ t_concerns \in SeqUpTo(HashConcernSet, MaxHashConcerns)
    /\ t_pc = "start"
    /\ t_verdict = None
    /\ t_action = None
    /\ t_hash = NoResult
    /\ IdleGuest
    /\ IdleServer

NextHash ==
    \/ DeriveVerdict
    \/ MapVerdictToAction
    \/ HashConcerns

SpecHash == InitHash /\ [][NextHash]_vars

-----------------------------------------------------------------------------
(* The pure functions applied to lists of concerns whose descriptions and  *)
(* evidence need escaping, and that differ only beyond the evidence limit. *)

ShapeEvidences ==
    {<<>>,
     <<"\\", "\"", "}", ",", "{", "\"">>,
     Repeat("x", MAX_EVIDENCE_LENGTH),
     Repeat("x", MAX_EVIDENCE_LENGTH + 1)}

ShapeDescriptions == {TestDescription, <<"a", "\"", ",", "\\">>}

ShapeConcernSet ==
    {Concern(cs[1], cs[2], d, e) :
        cs \in {<<"prompt_injection", "high">>, <<"undeclared_intent", "low">>},
        d \in ShapeDescriptions, e \in ShapeEvidences}

InitShape ==
    /\ IdleVerifier
    /\ IdleProver
    /\ t_concerns \in SeqUpTo(ShapeConcernSet, MaxShapeConcerns)
    /\ t_pc = "start"
    /\ t_verdict = None
    /\ t_action = None
    /\ t_hash = NoResult
    /\ IdleGuest
    /\ IdleServer

SpecShape == InitShape /\ [][NextHash]_vars

-----------------------------------------------------------------------------
(* host/src/prover.rs                                                      *)

\* What the proving primitive can do with a guest run that commits: produce a
\* receipt that verifies, produce one that does not verify against the guest
\* image id (a dev-mode receipt, another image), or fail.
ProverOutcomes == {"receipt", "receipt that does not verify", "error"}

Err(msg) == [tag |-> "err", message |-> msg]

\* A 32-bit word, held as its upper and lower 16 bits: hi * 65536 + lo.
U32(hi, lo) == [hi |-> hi, lo |-> lo]

\* Image ids are eight 32-bit words.  The id of the guest image that the
\* methods crate exports (0x12345678, 0, 0xffffffff, 1, 0x100, 0x80000000,
\* 0xabcdef01, 0x01020304), and the id of another image.
AIP_ZKVM_GUEST_ID ==
    <<U32(4660, 22136), U32(0, 0), U32(65535, 65535), U32(0, 1), U32(0, 256),
      U32(32768, 0), U32(43981, 61185), U32(258, 772)>>
OtherImageId ==
    <<U32(4660, 22136), U32(0, 0), U32(65535, 65535), U32(0, 1), U32(0, 256),
      U32(32768, 0), U32(43981, 61185), U32(258, 773)>>

\* A receipt: the image it was produced for, the journal, and whether its
\* seal proves that this image wrote this journal.
ReceiptFrom(image_id, guest_output, sound) ==
    [journal |-> guest_output, verifies |-> sound, image_id |-> image_id]

\* Receipt::verify(image_id)
receipt_verify(receipt, image_id) ==
    IF receipt.verifies /\ receipt.image_id = image_id
    THEN Ok("()")
    ELSE Err("verification failed")

\* A receipt that the prover returns for the guest: the journal the guest
\* committed, and whether receipt.verify(AIP_ZKVM_GUEST_ID) accepts it.
Receipt(guest_output, verifies) == ReceiptFrom(AIP_ZKVM_GUEST_ID, guest_output, verifies)

\* prove_verdict_derivation where every run of the guest is taken for a
\* successful one.
prove_verdict_derivation_ignoring_abort(inp, outcome) ==
    Bind(guest_main(inp), LAMBDA run :
    LET out == IF run.tag = "ok" THEN run.value ELSE GuestOutput("clear", "continue", None, inp)
    IN  Ok([receipt |-> Receipt(out, outcome = "receipt"), output |-> out]))

\* prove_verdict_derivation: the guest runs on the GuestInput built from the
\* five strings; an aborted guest or a failing prover is an error, otherwise
\* the receipt and the decoded journal are returned.
prove_verdict_derivation(inp, outcome) ==
    Bind(guest_main(inp), LAMBDA run :
    IF run.tag = "panic" \/ outcome = "error"
    THEN Err("Failed to generate proof")
    ELSE Ok([receipt |-> Receipt(run.value, outcome = "receipt"),
             output |-> run.value]))

\* verify_verdict_proof
verify_verdict_proof(receipt) ==
    IF receipt_verify(receipt, AIP_ZKVM_GUEST_ID).tag = "ok"
    THEN Ok(receipt.journal)
    ELSE Err("Receipt verification failed")

\* receipt_to_bytes: bincode::serialize, which may fail.
receipt_to_bytes(receipt, serializes) ==
    IF serializes
    THEN Ok([bincode |-> receipt])
    ELSE Err("Failed to serialize receipt")

\* Bytes that are not the serialization of a receipt.
JunkBytes == [junk |-> "0xde 0xad"]

\* receipt_from_bytes: bincode::deserialize.
receipt_from_bytes(bytes) ==
    IF DOMAIN bytes = {"bincode"}
    THEN Ok(bytes.bincode)
    ELSE Err("Failed to deserialize receipt")

\* A caller proves the verdict derivation of an input and verifies the
\* receipt, as the tests of prover.rs do.
InitProve ==
    /\ r_pc = "start"
    /\ r_input \in GuestInputs
    /\ r_proved = NoResult
    /\ r_direct = NoResult
    /\ r_restored = NoResult
    /\ IdleVerifier
    /\ IdlePure
    /\ IdleGuest
    /\ IdleServer

\* prove_verdict_derivation is called; the prover does one of the given
\* things.
Prove(outcomes) ==
    /\ r_pc = "start"
    /\ \E outcome \in outcomes :
           r_proved' = prove_verdict_derivation(r_input, outcome)
    /\ r_pc' = "proved"
    /\ UNCHANGED <<r_input, r_direct, r_restored>>
    /\ UNCHANGED <<t_vars, guest_vars, server_vars, verifier_vars>>

\* verify_verdict_proof(&restored) of test_receipt_roundtrip: the error of
\* the first step that fails, or the verified output.
verify_restored(receipt, serializes) ==
    LET bytes == receipt_to_bytes(receipt, serializes) IN
    IF bytes.tag = "err" THEN bytes
    ELSE LET restored == receipt_from_bytes(bytes.value) IN
         IF restored.tag = "err" THEN restored
         ELSE verify_verdict_proof(restored.value)

\* The returned receipt is verified, as it is and after receipt_to_bytes and
\* receipt_from_bytes, where serialization succeeds or fails as given.
Verify(serializations) ==
    /\ r_pc = "proved"
    /\ r_proved.tag = "ok"
    /\ r_direct' = verify_verdict_proof(r_proved.value.receipt)
    /\ \E serializes \in serializations :
           r_restored' = verify_restored(r_proved.value.receipt, serializes)
    /\ r_pc' = "verified"
    /\ UNCHANGED <<r_input, r_proved>>
    /\ UNCHANGED <<t_vars, guest_vars, server_vars, verifier_vars>>

\* The prover is taken to keep the contract of the proving primitive: it
\* fails, or returns a receipt that verifies for the guest image.
NextProve ==
    \/ Prove({"receipt", "error"})
    \/ Verify({TRUE})

SpecProve == InitProve /\ [][NextProve]_vars

-----------------------------------------------------------------------------
(* The relational store: the table verdict_proofs and its functions.  The  *)
(* UPDATE statement is in server.rs; complete_proof, fail_proof and        *)
(* get_pending_proofs are store-side functions described in the            *)
(* specification (sections 3, 4.5, 5 and 6).                               *)

ProofIds == {"p1"}

\* Option: Some(v), and NoResult for None (also for a row that is absent).
Some(v) == [tag |-> "some", value |-> v]

\* The retries the store grants a proof before get_pending_proofs stops
\* returning it ("retries are bounded by retry_count managed by the store").
MaxRetryCount == 1

\* A row as the API worker inserts it.  The columns that the service writes
\* and never reads (image_id, receipt_bytes, journal_bytes, cost) are left out.
PendingRow(stored) ==
    [status |-> "pending", updated_at |-> 0, retry_count |-> 0,
     proving_duration_ms |-> NoResult, verified |-> FALSE, verified_at |-> NoResult, error_message |-> NoResult,
     stored |-> stored]

\* UPDATE verdict_proofs SET status = 'proving', updated_at = now()
\*     WHERE proof_id = $1
UpdateProving(table, proof_id, now) ==
    IF table[proof_id] = NoResult THEN table
    ELSE [table EXCEPT ![proof_id].status = "proving",
                       ![proof_id].updated_at = now]

\* SELECT complete_proof($1, ..., $8)
complete_proof(table, call, now) ==
    IF table[call.proof_id] = NoResult THEN table
    ELSE [table EXCEPT ![call.proof_id].status = "complete",
                       ![call.proof_id].proving_duration_ms = Some(call.duration_ms),
                       ![call.proof_id].verified = call.verified,
                       ![call.proof_id].verified_at = call.verified_at,
                       ![call.proof_id].updated_at = now]

\* SELECT fail_proof($1, $2)
fail_proof(table, call, now) ==
    IF table[call.proof_id] = NoResult THEN table
    ELSE [table EXCEPT ![call.proof_id].status = "failed",
                       ![call.proof_id].error_message = Some(call.error_message),
                       ![call.proof_id].updated_at = now]

\* The proofs get_pending_proofs may return: pending or failed, with stored
\* input data, and retries left.
Retryable(table) ==
    {id \in ProofIds :
        /\ table[id] # NoResult
        /\ table[id].status \in {"pending", "failed"}
        /\ table[id].stored.analysis_json # NoResult
        /\ table[id].retry_count < MaxRetryCount}

\* The orders in which the proofs of a set can be listed, up to limit rows.
Listings(ids, limit) ==
    LET n == IF Cardinality(ids) < limit THEN Cardinality(ids) ELSE limit IN
    {l \in [1..n -> ids] : \A i, j \in 1..n : i # j => l[i] # l[j]}

\* The table after get_pending_proofs returned the listed proofs: each has
\* its retry_count incremented.
CountRetries(table, listing) ==
    [id \in ProofIds |->
        IF \E i \in 1..Len(listing) : listing[i] = id
        THEN [table[id] EXCEPT !.retry_count = @ + 1]
        ELSE table[id]]

\* A PendingProof row of the result.
PendingProof(table, id) ==
    [proof_id |-> id,
     retry_count |-> table[id].retry_count,
     analysis_json |-> table[id].stored.analysis_json,
     thinking_hash |-> table[id].stored.thinking_hash,
     card_hash |-> table[id].stored.card_hash,
     values_hash |-> table[id].stored.values_hash,
     model |-> table[id].stored.model]

\* SELECT ... FROM get_pending_proofs(limit): the possible results.
get_pending_proofs(table, limit) ==
    {[i \in 1..Len(l) |-> PendingProof(table, l[i])] :
        l \in Listings(Retryable(table), limit)}

-----------------------------------------------------------------------------
(* host/src/server.rs                                                      *)

\* requests the model lets the service receive
MaxRequests == 1
\* the largest value of now()
MaxClock == 1

\* Keys and header values are byte strings.  "secret", "wrong", and a key
\* with a character outside ASCII (e-acute, two bytes in UTF-8).
SecretKey == <<115, 101, 99, 114, 101, 116>>
WrongKey == <<119, 114, 111, 110, 103>>
AccentedKey == <<195, 169>>

\* HeaderValue::to_str: the value as text when each of its bytes is visible
\* ASCII or a tab, an error otherwise.
to_str(value) ==
    IF \A i \in 1..Len(value) : value[i] = 9 \/ (value[i] >= 32 /\ value[i] < 127)
    THEN Ok(value)
    ELSE Err("failed to convert header to a str")

\* Result::unwrap_or
result_unwrap_or(result, default) ==
    IF result.tag = "ok" THEN result.value ELSE default

\* check_auth; the error is the HTTP status code.  The header value is read
\* with key.to_str().unwrap_or("") and compared with the configured key.
check_auth(headers, key) ==
    IF key.tag = "some"
    THEN IF /\ headers.x_prover_key.tag = "some"
            /\ result_unwrap_or(to_str(headers.x_prover_key.value), <<>>) = key.value
         THEN Ok("()")
         ELSE Err(401)
    ELSE Ok("()")

\* The GuestInput that prove_verdict_derivation builds from its arguments.
GuestInputOf(analysis_json, thinking_hash, card_hash, values_hash, model) ==
    [analysis_json |-> analysis_json, thinking_hash |-> thinking_hash,
     card_hash |-> card_hash, values_hash |-> values_hash, model |-> model]

\* u32::to_le_bytes
to_le_bytes(w) ==
    <<w.lo % 256, w.lo \div 256, w.hi % 256, w.hi \div 256>>

HexDigits ==
    <<"0", "1", "2", "3", "4", "5", "6", "7", "8", "9", "a", "b", "c", "d", "e", "f">>

\* format!("{:02x}", b)
FormatByte(b) == <<HexDigits[(b \div 16) + 1], HexDigits[(b % 16) + 1]>>

\* image_id_hex: the bytes of each word in little-endian order, two
\* lowercase hex digits per byte, collected into a String.
RECURSIVE ImageIdHexFrom(_, _)
ImageIdHexFrom(id, i) ==
    IF i > Len(id) THEN <<>>
    ELSE LET b == to_le_bytes(id[i]) IN
         FormatByte(b[1]) \o FormatByte(b[2]) \o FormatByte(b[3]) \o FormatByte(b[4])
             \o ImageIdHexFrom(id, i + 1)

ImageIdHex(id) == ImageIdHexFrom(id, 1)

FailCall(proof_id, message) ==
    [function |-> "fail_proof", proof_id |-> proof_id, error_message |-> message]

CompleteCall(proof_id, receipt_bytes, journal_bytes, verified, verified_at) ==
    [function |-> "complete_proof", proof_id |-> proof_id,
     image_id_hex |-> ImageIdHex(AIP_ZKVM_GUEST_ID), receipt_bytes |-> receipt_bytes,
     journal_bytes |-> journal_bytes, duration_ms |-> "start.elapsed()",
     cost |-> "0.005", verified |-> verified, verified_at |-> verified_at]

\* What a spawned task does up to its store calls: the calls made to the
\* prover, the outcome of each step, and the store calls it goes on to make.
TaskRun(proved, serialized, verified, calls) ==
    [prover_calls |-> 1, proved |-> proved, serialized |-> serialized,
     verified |-> verified, calls |-> calls]

\* The task with the `return` after the serialization failure left out.
proving_task_falls_through(proof_id, inp, outcome, serializes, now) ==
    Bind(prove_verdict_derivation(inp, outcome), LAMBDA proved :
    IF proved.tag = "err"
    THEN TaskRun(FALSE, FALSE, FALSE, <<FailCall(proof_id, "Proving failed: " \o proved.message)>>)
    ELSE LET bytes == receipt_to_bytes(proved.value.receipt, serializes)
             verified == verify_verdict_proof(proved.value.receipt).tag = "ok"
             complete == CompleteCall(proof_id,
                                      IF bytes.tag = "ok" THEN bytes.value ELSE <<>>,
                                      proved.value.receipt.journal, verified,
                                      IF verified THEN Some(now) ELSE NoResult)
         IN  IF bytes.tag = "err"
             THEN TaskRun(TRUE, FALSE, verified,
                          <<FailCall(proof_id, "Receipt serialization failed: " \o bytes.message),
                            complete>>)
             ELSE TaskRun(TRUE, TRUE, verified, <<complete>>))

\* The task that stamps every completion with a timestamp.
proving_task_always_stamped(proof_id, inp, outcome, serializes, now) ==
    Bind(prove_verdict_derivation(inp, outcome), LAMBDA proved :
    IF proved.tag = "err"
    THEN TaskRun(FALSE, FALSE, FALSE, <<FailCall(proof_id, "Proving failed: " \o proved.message)>>)
    ELSE LET bytes == receipt_to_bytes(proved.value.receipt, serializes) IN
         IF bytes.tag = "err"
         THEN TaskRun(TRUE, FALSE, FALSE,
                      <<FailCall(proof_id, "Receipt serialization failed: " \o bytes.message)>>)
         ELSE LET verified == verify_verdict_proof(proved.value.receipt).tag = "ok" IN
              TaskRun(TRUE, TRUE, verified,
                      <<CompleteCall(proof_id, bytes.value, proved.value.receipt.journal,
                                     verified, Some(now))>>))

\* The body of the task spawned by handle_prove (server.rs:125-199), up to
\* the await of its store call.
proving_task(proof_id, inp, outcome, serializes, now) ==
    Bind(prove_verdict_derivation(inp, outcome), LAMBDA proved :
    IF proved.tag = "err"
    THEN TaskRun(FALSE, FALSE, FALSE, <<FailCall(proof_id, "Proving failed: " \o proved.message)>>)
    ELSE LET bytes == receipt_to_bytes(proved.value.receipt, serializes) IN
         IF bytes.tag = "err"
         THEN TaskRun(TRUE, FALSE, FALSE,
                      <<FailCall(proof_id, "Receipt serialization failed: " \o bytes.message)>>)
         ELSE LET verified == verify_verdict_proof(proved.value.receipt).tag = "ok" IN
              TaskRun(TRUE, TRUE, verified,
                      <<CompleteCall(proof_id, bytes.value, proved.value.receipt.journal,
                                     verified,
                                     IF verified THEN Some(now) ELSE NoResult)>>))

\* The task of retry_loop with the text of its log message in the error it
\* stores.
retry_proving_task_retry_message(proof_id, inp, outcome, serializes, now) ==
    Bind(prove_verdict_derivation(inp, outcome), LAMBDA proved :
    IF proved.tag = "err"
    THEN TaskRun(FALSE, FALSE, FALSE,
                 <<FailCall(proof_id, "Retry proving failed: " \o proved.message)>>)
    ELSE LET bytes == receipt_to_bytes(proved.value.receipt, serializes) IN
         IF bytes.tag = "err"
         THEN TaskRun(TRUE, FALSE, FALSE,
                      <<FailCall(proof_id, "Receipt serialization failed: " \o bytes.message)>>)
         ELSE LET verified == verify_verdict_proof(proved.value.receipt).tag = "ok" IN
              TaskRun(TRUE, TRUE, verified,
                      <<CompleteCall(proof_id, bytes.value, proved.value.receipt.journal,
                                     verified,
                                     IF verified THEN Some(now) ELSE NoResult)>>))

\* The body of the task spawned by retry_loop (server.rs:383-449), up to the
\* await of its store call.
retry_proving_task(proof_id, inp, outcome, serializes, now) ==
    Bind(prove_verdict_derivation(inp, outcome), LAMBDA proved :
    IF proved.tag = "err"
    THEN TaskRun(FALSE, FALSE, FALSE,
                 <<FailCall(proof_id, "Proving failed: " \o proved.message)>>)
    ELSE LET bytes == receipt_to_bytes(proved.value.receipt, serializes) IN
         IF bytes.tag = "err"
         THEN TaskRun(TRUE, FALSE, FALSE,
                      <<FailCall(proof_id, "Receipt serialization failed: " \o bytes.message)>>)
         ELSE LET verified == verify_verdict_proof(proved.value.receipt).tag = "ok" IN
              TaskRun(TRUE, TRUE, verified,
                      <<CompleteCall(proof_id, bytes.value, proved.value.receipt.journal,
                                     verified,
                                     IF verified THEN Some(now) ELSE NoResult)>>))

\* A task as tokio::spawn creates it.
SpawnedTask(proof_id, inp, origin) ==
    [proof_id |-> proof_id, input |-> inp, origin |-> origin, pc |-> "spawned",
     run |-> NoResult, issued |-> <<>>]

\* The store after one of the calls of a task.
StoreCall(table, call, now) ==
    IF call.function = "complete_proof"
    THEN complete_proof(table, call, now)
    ELSE fail_proof(table, call, now)

\* The analysis documents sent to the service: one that the guest accepts
\* and a text it aborts on.
ValidAnalysis ==
    DocumentText(JsonDocument(<<WireName("clear"), <<"0", ".", "9">>, <<"o", "k">>>>, <<>>))

ServerAnalysisTexts == {ValidAnalysis, <<"n", "o">>}

\* The body of POST /prove.
ProofRequest(proof_id, analysis_json) ==
    [proof_id |-> proof_id, checkpoint_id |-> "cp-1", analysis_json |-> analysis_json,
     thinking_hash |-> "abc123", card_hash |-> "def456", values_hash |-> "ghi789",
     model |-> "test-model"]

\* The X-Prover-Key header: missing, the configured key, another key.
HeaderKeys == {NoResult, Some(SecretKey), Some(WrongKey)}

\* Text in base64: the encoding of the given bytes, and a text that is not
\* base64.
Base64(bytes) == [base64 |-> bytes]
NotBase64 == [text |-> "not base64!"]

\* base64_decode: STANDARD.decode(input)
base64_decode(text) ==
    IF DOMAIN text = {"base64"}
    THEN Ok(text.base64)
    ELSE Err("Invalid symbol 32, offset 3.")

\* The journal of a run of the guest on the valid document.
ValidJournal ==
    guest_main(GuestInputOf(ValidAnalysis, "abc123", "def456", "ghi789",
                            "test-model")).value

\* The receipt field of POST /prove/verify: text that is not base64, bytes
\* that are no receipt, a receipt that verifies, a receipt that does not.
VerifyReceipts ==
    {NotBase64, Base64(JunkBytes),
     Base64([bincode |-> Receipt(ValidJournal, TRUE)]),
     Base64([bincode |-> Receipt(ValidJournal, FALSE)])}

\* The body of POST /prove/verify.
VerifyRequest(receipt, image_id) == [receipt |-> receipt, image_id |-> image_id]

\* Bodies that are not a VerifyRequest: text that is not JSON, and a JSON
\* object without the member receipt.
MalformedBodies == {[malformed |-> "not JSON"], [malformed |-> "{}"]}

\* The Json<T> extractor in the handlers' signatures: the request is
\* answered with a 4xx status by the framework when the body does not
\* deserialize, and the handler is not run.
Json(body) ==
    IF DOMAIN body = {"malformed"}
    THEN Err(IF body.malformed = "not JSON" THEN 400 ELSE 422)
    ELSE Ok(body)

\* The input columns of a row: absent, an empty analysis_json, analysis_json
\* alone, all five.
StoredInput(analysis_json, others) ==
    [analysis_json |-> analysis_json,
     thinking_hash |-> IF others THEN Some("abc123") ELSE NoResult,
     card_hash |-> IF others THEN Some("def456") ELSE NoResult,
     values_hash |-> IF others THEN Some("ghi789") ELSE NoResult,
     model |-> IF others THEN Some("test-model") ELSE NoResult]

StoredInputs ==
    {StoredInput(NoResult, FALSE),
     StoredInput(Some(<<>>), FALSE),
     StoredInput(Some(ValidAnalysis), FALSE),
     StoredInput(Some(ValidAnalysis), TRUE)}

\* Option::unwrap_or
unwrap_or(option, default) ==
    IF option.tag = "some" THEN option.value ELSE default

\* What the store returns for a statement it is sent.
StatementResult(executed) ==
    IF executed THEN Ok("executed") ELSE Err("store error")

\* A request, with what the store returned for the handler's statement
\* where the handler keeps it (handle_proof_status does, in `row`;
\* handle_prove drops it).
Request(endpoint, key, body) ==
    [endpoint |-> endpoint, headers |-> [x_prover_key |-> key], body |-> body,
     pc |-> "received", statement |-> NoResult, response |-> NoResult]

\* The service starts: the key is configured or not, the API worker has
\* inserted rows, the retry loop sleeps.
InitServer ==
    /\ IdleVerifier
    /\ IdleProver
    /\ prover_key \in {NoResult, Some(SecretKey)}
    /\ verdict_proofs \in
           [ProofIds -> {NoResult} \cup {PendingRow(st) : st \in StoredInputs}]
    /\ clock = 0
    /\ requests = <<>>
    /\ tasks = <<>>
    /\ retry = [pc |-> "sleeping", rows |-> <<>>]
    /\ IdlePure
    /\ IdleGuest

\* Time passes.
Tick ==
    /\ clock < MaxClock
    /\ clock' = clock + 1
    /\ UNCHANGED <<prover_key, verdict_proofs, requests, tasks, retry>>
    /\ UNCHANGED <<t_vars, guest_vars, verifier_vars, prover_vars>>

\* A client sends POST /prove, with one of the given X-Prover-Key headers and
\* analysis documents.
ReceiveProve(keys, texts) ==
    /\ Len(requests) < MaxRequests
    /\ \E id \in ProofIds, text \in texts, key \in keys :
           requests' = Append(requests, Request("POST /prove", key, ProofRequest(id, text)))
    /\ UNCHANGED <<prover_key, verdict_proofs, clock, tasks, retry>>
    /\ UNCHANGED <<t_vars, guest_vars, verifier_vars, prover_vars>>

\* A client sends POST /prove/verify, with one of the given X-Prover-Key
\* headers and bodies.
ReceiveVerify(keys, bodies) ==
    /\ Len(requests) < MaxRequests
    /\ \E body \in bodies, key \in keys :
           requests' = Append(requests, Request("POST /prove/verify", key, body))
    /\ UNCHANGED <<prover_key, verdict_proofs, clock, tasks, retry>>
    /\ UNCHANGED <<t_vars, guest_vars, verifier_vars, prover_vars>>

\* handle_prove up to the await of its UPDATE (server.rs:112-120): the
\* request is rejected, or the UPDATE is sent to the store, which executes
\* it or fails as given; its result is dropped.
\* A handler that sends its UPDATE before it checks the key.
HandleProveUpdate_before_auth(i, executions) ==
    LET req == requests[i] IN
    /\ req.endpoint = "POST /prove"
    /\ req.pc = "received"
    /\ requests' = IF check_auth(req.headers, prover_key).tag = "err"
                   THEN [requests EXCEPT
                             ![i].pc = "responded",
                             ![i].response = Some([status |-> 401])]
                   ELSE [requests EXCEPT ![i].pc = "updated"]
    /\ \E executed \in executions :
           verdict_proofs' =
               IF executed
               THEN UpdateProving(verdict_proofs, req.body.proof_id, clock)
               ELSE verdict_proofs
    /\ UNCHANGED <<prover_key, clock, tasks, retry>>
    /\ UNCHANGED <<t_vars, guest_vars, verifier_vars, prover_vars>>

HandleProveUpdate(i, executions) ==
    LET req == requests[i] IN
    /\ req.endpoint = "POST /prove"
    /\ req.pc = "received"
    /\ IF check_auth(req.headers, prover_key).tag = "err"
       THEN /\ requests' = [requests EXCEPT
                                ![i].pc = "responded",
                                ![i].response = Some([status |-> 401])]
            /\ UNCHANGED verdict_proofs
       ELSE /\ requests' = [requests EXCEPT ![i].pc = "updated"]
            /\ \E executed \in executions :
                   verdict_proofs' =
                       IF executed
                       THEN UpdateProving(verdict_proofs, req.body.proof_id, clock)
                       ELSE verdict_proofs
    /\ UNCHANGED <<prover_key, clock, tasks, retry>>
    /\ UNCHANGED <<t_vars, guest_vars, verifier_vars, prover_vars>>

\* handle_prove after the await (server.rs:122-204): the task is spawned and
\* the response returned.
HandleProveSpawn(i) ==
    LET req == requests[i] IN
    /\ req.endpoint = "POST /prove"
    /\ req.pc = "updated"
    /\ tasks' = Append(tasks,
                       SpawnedTask(req.body.proof_id,
                                   GuestInputOf(req.body.analysis_json,
                                                req.body.thinking_hash,
                                                req.body.card_hash,
                                                req.body.values_hash,
                                                req.body.model),
                                   "handle_prove"))
    /\ requests' = [requests EXCEPT
                        ![i].pc = "responded",
                        ![i].response =
                            Some([status |-> 200,
                                  body |-> [proof_id |-> req.body.proof_id,
                                            status |-> "proving"]])]
    /\ UNCHANGED <<prover_key, verdict_proofs, clock, retry>>
    /\ UNCHANGED <<t_vars, guest_vars, verifier_vars, prover_vars>>

\* VerifyResponse
VerifyResponse(valid, verdict_, action_, hash, error) ==
    [valid |-> valid, verdict |-> verdict_, action |-> action_,
     concerns_hash |-> hash, error |-> error]

\* handle_verify where a request that names an image id has its receipt
\* verified against that image.
handle_verify_against_request_image(headers, req, key) ==
    IF check_auth(headers, key).tag = "err"
    THEN VerifyResponse(FALSE, NoResult, NoResult, NoResult, Some("Unauthorized"))
    ELSE LET receipt_bytes == base64_decode(req.receipt) IN
    IF receipt_bytes.tag = "err"
    THEN VerifyResponse(FALSE, NoResult, NoResult, NoResult,
                        Some("Invalid receipt encoding: " \o receipt_bytes.message))
    ELSE LET receipt == receipt_from_bytes(receipt_bytes.value) IN
    IF receipt.tag = "err"
    THEN VerifyResponse(FALSE, NoResult, NoResult, NoResult,
                        Some("Invalid receipt: " \o receipt.message))
    ELSE LET output ==
                 IF req.image_id.tag = "none"
                 THEN verify_verdict_proof(receipt.value)
                 ELSE IF /\ receipt.value.verifies
                         /\ ImageIdHex(receipt.value.image_id) = req.image_id.value
                 THEN Ok(receipt.value.journal)
                 ELSE Err("Receipt verification failed")
         IN
         IF output.tag = "ok"
         THEN VerifyResponse(TRUE,
                             Some(EnumString(output.value.verdict)),
                             Some(EnumString(output.value.action)),
                             Some(output.value.concerns_hash), NoResult)
         ELSE VerifyResponse(FALSE, NoResult, NoResult, NoResult,
                             Some("Verification failed: " \o output.message))

\* handle_verify: the response body.
handle_verify(headers, req, key) ==
    IF check_auth(headers, key).tag = "err"
    THEN VerifyResponse(FALSE, NoResult, NoResult, NoResult, Some("Unauthorized"))
    ELSE LET receipt_bytes == base64_decode(req.receipt) IN
    IF receipt_bytes.tag = "err"
    THEN VerifyResponse(FALSE, NoResult, NoResult, NoResult,
                        Some("Invalid receipt encoding: " \o receipt_bytes.message))
    ELSE LET receipt == receipt_from_bytes(receipt_bytes.value) IN
    IF receipt.tag = "err"
    THEN VerifyResponse(FALSE, NoResult, NoResult, NoResult,
                        Some("Invalid receipt: " \o receipt.message))
    ELSE LET output == verify_verdict_proof(receipt.value) IN
         IF output.tag = "ok"
         THEN VerifyResponse(TRUE,
                             Some(EnumString(output.value.verdict)),
                             Some(EnumString(output.value.action)),
                             Some(output.value.concerns_hash), NoResult)
         ELSE VerifyResponse(FALSE, NoResult, NoResult, NoResult,
                             Some("Verification failed: " \o output.message))

\* POST /prove/verify is handled: a body that is no VerifyRequest is
\* rejected by the extractor; otherwise handle_verify returns Json(..) on
\* every path, which axum sends with status 200.
HandleVerify(i) ==
    LET req == requests[i] IN
    /\ req.endpoint = "POST /prove/verify"
    /\ req.pc = "received"
    /\ requests' = [requests EXCEPT
                        ![i].pc = "responded",
                        ![i].response =
                            IF Json(req.body).tag = "err"
                            THEN Some([status |-> Json(req.body).message])
                            ELSE Some([status |-> 200,
                                       body |-> handle_verify(req.headers, req.body,
                                                              prover_key)])]
    /\ UNCHANGED <<prover_key, verdict_proofs, clock, tasks, retry>>
    /\ UNCHANGED <<t_vars, guest_vars, verifier_vars, prover_vars>>

\* ProofStatusResponse (server.rs:50-57)
ProofStatusResponse(proof_id, status, proving_duration_ms, verified, error_message) ==
    [proof_id |-> proof_id, status |-> status,
     proving_duration_ms |-> proving_duration_ms, verified |-> verified,
     error_message |-> error_message]

\* SELECT proof_id, status, proving_duration_ms, verified, error_message
\* FROM verdict_proofs WHERE proof_id = $1, with fetch_optional: the
\* statement fails, or yields the row of that id if there is one.
fetch_proof_status(table, proof_id, executed) ==
    IF ~executed THEN Err("store error")
    ELSE IF table[proof_id] = NoResult THEN Ok(NoResult)
    ELSE Ok(Some(<<proof_id, table[proof_id].status,
                   table[proof_id].proving_duration_ms,
                   table[proof_id].verified, table[proof_id].error_message>>))

\* handle_proof_status with the row changed on its way: a failed proof is
\* reported as unknown.
handle_proof_status_hiding_failed(fetched) ==
    IF fetched.tag = "err" THEN [status |-> 500]
    ELSE IF fetched.value.tag = "some" /\ fetched.value.value[2] # "failed"
    THEN LET row == fetched.value.value IN
         [status |-> 200,
          body |-> ProofStatusResponse(row[1], row[2], row[3], row[4], row[5])]
    ELSE [status |-> 404]

\* handle_proof_status, given what the query returned.
handle_proof_status(fetched) ==
    IF fetched.tag = "err" THEN [status |-> 500]
    ELSE IF fetched.value.tag = "some"
    THEN LET row == fetched.value.value IN
         [status |-> 200,
          body |-> ProofStatusResponse(row[1], row[2], row[3], row[4], row[5])]
    ELSE [status |-> 404]

\* A client sends GET /prove/{proof_id} for one of the given ids.
ReceiveStatus(ids) ==
    /\ Len(requests) < MaxRequests
    /\ \E id \in ids :
           requests' = Append(requests,
                              Request("GET /prove/{proof_id}", NoResult, [proof_id |-> id]))
    /\ UNCHANGED <<prover_key, verdict_proofs, clock, tasks, retry>>
    /\ UNCHANGED <<t_vars, guest_vars, verifier_vars, prover_vars>>

\* GET /prove/{proof_id} is handled: the query is sent to the store, which
\* executes it or fails as given, and the response is returned.
HandleStatus(i, executions) ==
    LET req == requests[i] IN
    /\ req.endpoint = "GET /prove/{proof_id}"
    /\ req.pc = "received"
    /\ \E executed \in executions :
           requests' = [requests EXCEPT
                            ![i].pc = "responded",
                            ![i].statement = StatementResult(executed),
                            ![i].response =
                                Some(handle_proof_status(
                                         fetch_proof_status(verdict_proofs,
                                                            req.body.proof_id,
                                                            executed)))]
    /\ UNCHANGED <<prover_key, verdict_proofs, clock, tasks, retry>>
    /\ UNCHANGED <<t_vars, guest_vars, verifier_vars, prover_vars>>

\* A spawned task runs up to the await of its store call: it proves,
\* serializes and self-verifies, where the prover does one of the given
\* things and serialization succeeds or fails as given.
TaskProve(k, outcomes, serializations) ==
    /\ tasks[k].pc = "spawned"
    /\ \E outcome \in outcomes, serializes \in serializations :
           tasks' = [tasks EXCEPT
                         ![k].pc = "calling",
                         ![k].run =
                             IF tasks[k].origin = "retry_loop"
                             THEN retry_proving_task(tasks[k].proof_id, tasks[k].input,
                                                     outcome, serializes, clock)
                             ELSE proving_task(tasks[k].proof_id, tasks[k].input,
                                               outcome, serializes, clock)]
    /\ UNCHANGED <<prover_key, verdict_proofs, clock, requests, retry>>
    /\ UNCHANGED <<t_vars, guest_vars, verifier_vars, prover_vars>>

\* What is remembered of a store call that a task has made.
Issued(call) ==
    IF call.function = "complete_proof"
    THEN [function |-> call.function, proof_id |-> call.proof_id,
          verified |-> call.verified, verified_at |-> call.verified_at]
    ELSE [function |-> call.function, proof_id |-> call.proof_id,
          error_message |-> call.error_message]

\* The next store call of a task is sent to the store, which executes it or
\* fails as given; the task ends after its last call and its locals are
\* dropped.
TaskStore(k, executions) ==
    LET task == tasks[k]
        n == Len(task.issued) + 1
    IN  /\ task.pc = "calling"
        /\ \E executed \in executions :
               verdict_proofs' =
                   IF executed
                   THEN StoreCall(verdict_proofs, task.run.calls[n], clock)
                   ELSE verdict_proofs
        /\ tasks' = IF n = Len(task.run.calls)
                     THEN [tasks EXCEPT
                               ![k].issued = Append(@, Issued(task.run.calls[n])),
                               ![k].pc = "done",
                               ![k].input = NoResult,
                               ![k].run.calls = <<>>]
                     ELSE [tasks EXCEPT
                               ![k].issued = Append(@, Issued(task.run.calls[n]))]
        /\ UNCHANGED <<prover_key, clock, requests, retry>>
        /\ UNCHANGED <<t_vars, guest_vars, verifier_vars, prover_vars>>

\* get_pending_proofs(5)
PendingLimit == 5

\* retry_loop wakes from its sleep and pings its own health endpoint
\* (server.rs:334-344): the connection or the write succeeds or fails as
\* given, and either way the loop goes on to its query.
RetryWake(pings) ==
    /\ retry.pc = "sleeping"
    /\ \E connected \in pings : retry' = [retry EXCEPT !.pc = "woken"]
    /\ UNCHANGED <<prover_key, verdict_proofs, clock, requests, tasks>>
    /\ UNCHANGED <<t_vars, guest_vars, verifier_vars, prover_vars>>

\* retry_loop queries the store (server.rs:346-356, 452-456), at the given
\* position: the query fails as given and the loop sleeps again, or it
\* returns rows and the loop goes through them, sleeping again when there
\* is none.
RetryQueryAt(position, executions) ==
    /\ retry.pc = position
    /\ \/ /\ FALSE \in executions
          /\ retry' = [retry EXCEPT !.pc = "sleeping"]
          /\ UNCHANGED verdict_proofs
       \/ TRUE \in executions /\ \E pending \in get_pending_proofs(verdict_proofs, PendingLimit) :
              /\ verdict_proofs' =
                     CountRetries(verdict_proofs,
                                  [i \in 1..Len(pending) |-> pending[i].proof_id])
              /\ retry' = IF pending = <<>>
                          THEN [retry EXCEPT !.pc = "sleeping"]
                          ELSE [pc |-> "iterating", rows |-> pending]
    /\ UNCHANGED <<prover_key, clock, requests, tasks>>
    /\ UNCHANGED <<t_vars, guest_vars, verifier_vars, prover_vars>>

\* The sleep, the self-ping and the query of an iteration as one step.
RetryQuery(executions) == RetryQueryAt("sleeping", executions)

\* A loop that propagates the error of its UPDATE and returns.
RetryMark_propagating(executions) ==
    /\ retry.pc = "iterating"
    /\ LET row == Head(retry.rows) IN
       IF row.analysis_json.tag = "some" /\ row.analysis_json.value # <<>>
       THEN \E executed \in executions :
                /\ retry' = [retry EXCEPT !.pc = IF executed THEN "marked" ELSE "returned"]
                /\ verdict_proofs' =
                       IF executed
                       THEN UpdateProving(verdict_proofs, row.proof_id, clock)
                       ELSE verdict_proofs
       ELSE /\ retry' = IF Len(retry.rows) = 1
                        THEN [pc |-> "sleeping", rows |-> <<>>]
                        ELSE [retry EXCEPT !.rows = Tail(@)]
            /\ UNCHANGED verdict_proofs
    /\ UNCHANGED <<prover_key, clock, requests, tasks>>
    /\ UNCHANGED <<t_vars, guest_vars, verifier_vars, prover_vars>>

\* The loop body up to the await of the UPDATE (server.rs:357-378): a row
\* without analysis_json is skipped, otherwise the UPDATE is sent to the
\* store, which executes it or fails as given.
RetryMark(executions) ==
    /\ retry.pc = "iterating"
    /\ LET row == Head(retry.rows) IN
       IF row.analysis_json.tag = "some" /\ row.analysis_json.value # <<>>
       THEN /\ retry' = [retry EXCEPT !.pc = "marked"]
            /\ \E executed \in executions :
                   verdict_proofs' =
                       IF executed
                       THEN UpdateProving(verdict_proofs, row.proof_id, clock)
                       ELSE verdict_proofs
       ELSE /\ retry' = IF Len(retry.rows) = 1
                        THEN [pc |-> "sleeping", rows |-> <<>>]
                        ELSE [retry EXCEPT !.rows = Tail(@)]
            /\ UNCHANGED verdict_proofs
    /\ UNCHANGED <<prover_key, clock, requests, tasks>>
    /\ UNCHANGED <<t_vars, guest_vars, verifier_vars, prover_vars>>

\* The loop body after the await, changed: the loop does not leave the row
\* it has spawned a task for.
RetrySpawn_staying_on_row ==
    /\ retry.pc = "marked"
    /\ LET row == Head(retry.rows) IN
       tasks' = Append(tasks,
                       SpawnedTask(row.proof_id,
                                   GuestInputOf(row.analysis_json.value,
                                                unwrap_or(row.thinking_hash, ""),
                                                unwrap_or(row.card_hash, ""),
                                                unwrap_or(row.values_hash, ""),
                                                unwrap_or(row.model, "unknown")),
                                   "retry_loop"))
    /\ retry' = [pc |-> "iterating", rows |-> retry.rows]
    /\ UNCHANGED <<prover_key, verdict_proofs, clock, requests>>
    /\ UNCHANGED <<t_vars, guest_vars, verifier_vars, prover_vars>>

\* The loop body after the await (server.rs:380-450): the task is spawned and
\* the loop goes on to the next row, or to sleep after the last.
RetrySpawn ==
    /\ retry.pc = "marked"
    /\ LET row == Head(retry.rows) IN
       tasks' = Append(tasks,
                       SpawnedTask(row.proof_id,
                                   GuestInputOf(row.analysis_json.value,
                                                unwrap_or(row.thinking_hash, ""),
                                                unwrap_or(row.card_hash, ""),
                                                unwrap_or(row.values_hash, ""),
                                                unwrap_or(row.model, "unknown")),
                                   "retry_loop"))
    /\ retry' = IF Len(retry.rows) = 1
                THEN [pc |-> "sleeping", rows |-> <<>>]
                ELSE [pc |-> "iterating", rows |-> Tail(retry.rows)]
    /\ UNCHANGED <<prover_key, verdict_proofs, clock, requests>>
    /\ UNCHANGED <<t_vars, guest_vars, verifier_vars, prover_vars>>

\* The service under POST /prove traffic from clients that send the
\* configured key or none and a document the guest accepts, with its retry
\* loop; a prover that returns a verifying receipt or fails, and a store
\* that executes every statement it is sent.
NextServer ==
    \/ Tick
    \/ ReceiveProve({NoResult, Some(SecretKey)}, {ValidAnalysis})
    \/ \E i \in 1..Len(requests) : HandleProveUpdate(i, {TRUE})
    \/ \E i \in 1..Len(requests) : HandleProveSpawn(i)
    \/ \E k \in 1..Len(tasks) : TaskProve(k, {"receipt", "error"}, {TRUE})
    \/ \E k \in 1..Len(tasks) : TaskStore(k, {TRUE})
    \/ RetryQuery({TRUE})
    \/ RetryMark({TRUE})
    \/ RetrySpawn

SpecServer == InitServer /\ [][NextServer]_vars

\* The router alone (build_router, without the retry loop), under requests
\* to both protected endpoints with any X-Prover-Key header; the store's
\* statements may fail.
InitApi ==
    /\ IdleVerifier
    /\ IdleProver
    /\ prover_key \in {NoResult, Some(SecretKey)}
    /\ verdict_proofs \in
           [ProofIds -> {NoResult, PendingRow(StoredInput(Some(ValidAnalysis), TRUE))}]
    /\ clock = 0
    /\ requests = <<>>
    /\ tasks = <<>>
    /\ retry = [pc |-> "idle"]
    /\ IdlePure
    /\ IdleGuest

NextApi ==
    \/ Tick
    \/ ReceiveProve(HeaderKeys, ServerAnalysisTexts)
    \/ ReceiveVerify(HeaderKeys, {VerifyRequest(r, NoResult) : r \in VerifyReceipts})
    \/ \E i \in 1..Len(requests) : HandleProveUpdate(i, BOOLEAN)
    \/ \E i \in 1..Len(requests) : HandleProveSpawn(i)
    \/ \E i \in 1..Len(requests) : HandleVerify(i)
    \/ \E k \in 1..Len(tasks) : TaskProve(k, ProverOutcomes, BOOLEAN)
    \/ \E k \in 1..Len(tasks) : TaskStore(k, BOOLEAN)

SpecApi == InitApi /\ [][NextApi]_vars

\* The keys the service may be configured with: none, the empty string, an
\* ASCII key, a key with a character outside ASCII.
AuthKeys == {NoResult, Some(<<>>), Some(SecretKey), Some(AccentedKey)}

\* X-Prover-Key headers: missing, empty, the keys, a key cut short, with a
\* byte more, with another last byte, and values with bytes outside ASCII
\* (which a HeaderValue may hold).
AuthHeaders ==
    {NoResult, Some(<<>>), Some(SecretKey), Some(WrongKey), Some(AccentedKey),
     Some(SubSeq(SecretKey, 1, 5)), Some(SecretKey \o <<33>>),
     Some(SubSeq(SecretKey, 1, 5) \o <<84>>),
     Some(<<255>>), Some(SubSeq(SecretKey, 1, 5) \o <<244>>)}

\* The image_id member of a VerifyRequest: absent, the id of the guest
\* image, the id of another image, text that is no image id.
RequestImageIds ==
    {NoResult, Some(ImageIdHex(AIP_ZKVM_GUEST_ID)), Some(ImageIdHex(OtherImageId)),
     Some(<<"z">>)}

\* The bodies sent to POST /prove/verify: every drawn receipt, and a sound
\* receipt of another image, with every drawn image_id; and bodies that are
\* no VerifyRequest.
VerifyBodies ==
    {VerifyRequest(r, id) :
        r \in VerifyReceipts
               \cup {Base64([bincode |-> ReceiptFrom(OtherImageId, ValidJournal, TRUE)])},
        id \in RequestImageIds}
    \cup MalformedBodies

\* POST /prove/verify alone, under every drawn header and body.
InitVerify ==
    /\ IdleVerifier
    /\ IdleProver
    /\ prover_key \in {NoResult, Some(SecretKey)}
    /\ verdict_proofs = [id \in ProofIds |-> NoResult]
    /\ clock = 0
    /\ requests = <<>>
    /\ tasks = <<>>
    /\ retry = [pc |-> "idle"]
    /\ IdlePure
    /\ IdleGuest

NextVerify ==
    \/ ReceiveVerify(HeaderKeys, VerifyBodies)
    \/ \E i \in 1..Len(requests) : HandleVerify(i)

SpecVerify == InitVerify /\ [][NextVerify]_vars

\* Authentication alone: the router under requests to both protected
\* endpoints with every drawn header, for every drawn configured key.
InitAuth ==
    /\ IdleVerifier
    /\ IdleProver
    /\ prover_key \in AuthKeys
    /\ verdict_proofs = [id \in ProofIds |-> NoResult]
    /\ clock = 0
    /\ requests = <<>>
    /\ tasks = <<>>
    /\ retry = [pc |-> "idle"]
    /\ IdlePure
    /\ IdleGuest

NextAuth ==
    \/ ReceiveProve(AuthHeaders, {ValidAnalysis})
    \/ ReceiveVerify(AuthHeaders, {VerifyRequest(NotBase64, NoResult)})
    \/ \E i \in 1..Len(requests) : HandleProveUpdate(i, {TRUE})
    \/ \E i \in 1..Len(requests) : HandleProveSpawn(i)
    \/ \E i \in 1..Len(requests) : HandleVerify(i)

SpecAuth == InitAuth /\ [][NextAuth]_vars

\* The proving tasks of both origins, with every outcome of proving,
\* serialization, self-verification and of the store's statements: the
\* service without a configured key, one row with stored input, POST /prove
\* requests and the retry loop.
InitTasks ==
    /\ IdleVerifier
    /\ IdleProver
    /\ prover_key = NoResult
    /\ verdict_proofs =
           [id \in ProofIds |-> PendingRow(StoredInput(Some(ValidAnalysis), FALSE))]
    /\ clock = 0
    /\ requests = <<>>
    /\ tasks = <<>>
    /\ retry = [pc |-> "sleeping", rows |-> <<>>]
    /\ IdlePure
    /\ IdleGuest

NextTasks ==
    \/ Tick
    \/ ReceiveProve({NoResult}, ServerAnalysisTexts)
    \/ \E i \in 1..Len(requests) : HandleProveUpdate(i, BOOLEAN)
    \/ \E i \in 1..Len(requests) : HandleProveSpawn(i)
    \/ \E k \in 1..Len(tasks) : TaskProve(k, ProverOutcomes, BOOLEAN)
    \/ \E k \in 1..Len(tasks) : TaskStore(k, BOOLEAN)
    \/ RetryQuery(BOOLEAN)
    \/ RetryMark(BOOLEAN)
    \/ RetrySpawn

SpecTasks == InitTasks /\ [][NextTasks]_vars

\* The status endpoint beside the writers of the table: the service without
\* a configured key, a row with stored input or none, POST /prove and
\* GET /prove/{proof_id} requests, the retry loop and the proving tasks, with
\* a prover that returns a verifying receipt or fails and a store whose
\* statements execute or fail.
InitStatus ==
    /\ IdleVerifier
    /\ IdleProver
    /\ prover_key = NoResult
    /\ verdict_proofs \in
           [ProofIds -> {NoResult,
                         PendingRow(StoredInput(Some(ValidAnalysis), FALSE))}]
    /\ clock = 0
    /\ requests = <<>>
    /\ tasks = <<>>
    /\ retry = [pc |-> "sleeping", rows |-> <<>>]
    /\ IdlePure
    /\ IdleGuest

NextStatus ==
    \/ ReceiveProve({NoResult}, {ValidAnalysis})
    \/ ReceiveStatus(ProofIds)
    \/ \E i \in 1..Len(requests) : HandleProveUpdate(i, BOOLEAN)
    \/ \E i \in 1..Len(requests) : HandleProveSpawn(i)
    \/ \E i \in 1..Len(requests) : HandleStatus(i, BOOLEAN)
    \/ \E k \in 1..Len(tasks) : TaskProve(k, {"receipt", "error"}, {TRUE})
    \/ \E k \in 1..Len(tasks) : TaskStore(k, BOOLEAN)
    \/ RetryQuery(BOOLEAN)
    \/ RetryMark(BOOLEAN)
    \/ RetrySpawn

SpecStatus == InitStatus /\ [][NextStatus]_vars

\* The two origins of proving tasks side by side: a row whose stored input
\* is what clients send for it, POST /prove requests and the retry loop, a
\* prover and a serialization with every outcome, and a store that executes
\* every statement.
InitBothTasks ==
    /\ IdleVerifier
    /\ IdleProver
    /\ prover_key = NoResult
    /\ verdict_proofs =
           [id \in ProofIds |-> PendingRow(StoredInput(Some(ValidAnalysis), TRUE))]
    /\ clock = 0
    /\ requests = <<>>
    /\ tasks = <<>>
    /\ retry = [pc |-> "sleeping", rows |-> <<>>]
    /\ IdlePure
    /\ IdleGuest

NextBothTasks ==
    \/ ReceiveProve({NoResult}, ServerAnalysisTexts)
    \/ \E i \in 1..Len(requests) : HandleProveUpdate(i, {TRUE})
    \/ \E i \in 1..Len(requests) : HandleProveSpawn(i)
    \/ \E k \in 1..Len(tasks) : TaskProve(k, ProverOutcomes, BOOLEAN)
    \/ \E k \in 1..Len(tasks) : TaskStore(k, {TRUE})
    \/ RetryQuery({TRUE})
    \/ RetryMark({TRUE})
    \/ RetrySpawn

SpecBothTasks == InitBothTasks /\ [][NextBothTasks]_vars

\* The retry loop as main.rs spawns it (main.rs:125-130), next to POST
\* /prove traffic: its self-ping, its query and its UPDATE succeed or fail,
\* the tasks fail or succeed.  The runtime schedules the loop's task, so
\* each of the loop's steps is taken when it stays enabled; nothing is
\* assumed about the progress of the tasks or of the requests.
NextLoop ==
    \/ ReceiveProve({NoResult}, {ValidAnalysis})
    \/ \E i \in 1..Len(requests) : HandleProveUpdate(i, BOOLEAN)
    \/ \E i \in 1..Len(requests) : HandleProveSpawn(i)
    \/ \E k \in 1..Len(tasks) : TaskProve(k, {"receipt", "error"}, {TRUE})
    \/ \E k \in 1..Len(tasks) : TaskStore(k, BOOLEAN)
    \/ RetryWake(BOOLEAN)
    \/ RetryQueryAt("woken", BOOLEAN)
    \/ RetryMark(BOOLEAN)
    \/ RetrySpawn

\* POST /prove and its proving tasks while the process keeps running: the
\* runtime schedules every handler and every task, the prover call returns
\* (prove_verdict_derivation is a synchronous call of the task), and each
\* store call returns, executed or with an error.
NextProving ==
    \/ Tick
    \/ ReceiveProve({NoResult, Some(SecretKey)}, {ValidAnalysis})
    \/ \E i \in 1..Len(requests) : HandleProveUpdate(i, BOOLEAN)
    \/ \E i \in 1..Len(requests) : HandleProveSpawn(i)
    \/ \E k \in 1..Len(tasks) : TaskProve(k, {"receipt", "error"}, {TRUE})
    \/ \E k \in 1..Len(tasks) : TaskStore(k, BOOLEAN)

SpecProving ==
    /\ InitApi
    /\ [][NextProving]_vars
    /\ WF_vars(\E i \in 1..Len(requests) : HandleProveUpdate(i, BOOLEAN))
    /\ WF_vars(\E i \in 1..Len(requests) : HandleProveSpawn(i))
    /\ WF_vars(\E k \in 1..Len(tasks) : TaskProve(k, {"receipt", "error"}, {TRUE}))
    /\ WF_vars(\E k \in 1..Len(tasks) : TaskStore(k, BOOLEAN))

SpecLoop ==
    /\ InitBothTasks
    /\ [][NextLoop]_vars
    /\ WF_vars(RetryWake(BOOLEAN))
    /\ WF_vars(RetryQueryAt("woken", BOOLEAN))
    /\ WF_vars(RetryMark(BOOLEAN))
    /\ WF_vars(RetrySpawn)

-----------------------------------------------------------------------------
(* wasm-verifier/src/lib.rs                                                *)

\* The byte offsets at which the characters of s end: entry k + 1 is the
\* number of bytes of the first k characters.
CharBoundaries(s) == [k \in 1..(Len(s) + 1) |-> ByteOffset(s, k - 1)]

\* &s[a..b], given the boundaries of s: the characters between the byte
\* offsets a and b; panics unless both are character boundaries of s.
SliceBytes(s, boundaries, a, b) ==
    IF a > b \/ b > boundaries[Len(boundaries)]
    THEN Panic("byte index out of range")
    ELSE IF \A k \in 1..Len(boundaries) : boundaries[k] # a
    THEN Panic("byte index is not a char boundary")
    ELSE IF \A k \in 1..Len(boundaries) : boundaries[k] # b
    THEN Panic("byte index is not a char boundary")
    ELSE LET from == CHOOSE k \in 1..Len(boundaries) : boundaries[k] = a
             to == CHOOSE k \in 1..Len(boundaries) : boundaries[k] = b
         IN  Ok(SubSeq(s, from, to - 1))

UpperHexDigits ==
    <<"0", "1", "2", "3", "4", "5", "6", "7", "8", "9", "A", "B", "C", "D", "E", "F">>

\* char::to_digit(16): the value of a hexadecimal digit of either case.
to_digit(c) ==
    IF \E d \in 1..16 : HexDigits[d] = c
    THEN Some((CHOOSE d \in 1..16 : HexDigits[d] = c) - 1)
    ELSE IF \E d \in 1..16 : UpperHexDigits[d] = c
    THEN Some((CHOOSE d \in 1..16 : UpperHexDigits[d] = c) - 1)
    ELSE NoResult

\* The value of a string of hexadecimal digits.
RECURSIVE HexValue(_)
HexValue(digits) ==
    IF digits = <<>> THEN 0
    ELSE 16 * HexValue(SubSeq(digits, 1, Len(digits) - 1))
         + to_digit(digits[Len(digits)]).value

\* u8::from_str_radix(src, 16): an optional "+" and then hexadecimal digits
\* of a value below 256.
from_str_radix(src) ==
    IF src = <<>> THEN Err("cannot parse integer from empty string")
    ELSE IF src = <<"+">> \/ src = <<"-">> THEN Err("invalid digit found in string")
    ELSE LET digits == IF Head(src) = "+" THEN Tail(src) ELSE src IN
         IF \E i \in 1..Len(digits) : to_digit(digits[i]) = NoResult
         THEN Err("invalid digit found in string")
         ELSE IF HexValue(digits) > 255
         THEN Err("number too large to fit in target type")
         ELSE Ok(HexValue(digits))

\* u32::from_le_bytes
from_le_bytes(b) == U32(b[3] + 256 * b[4], b[1] + 256 * b[2])

\* u8::from_str_radix(&hex_str[2 * i..2 * i + 2], 16), for i in 0..32: the
\* element of the iterator, or the panic of the slice.
ParsedByte(hex_str, boundaries, i) ==
    LET slice == SliceBytes(hex_str, boundaries, 2 * i, 2 * i + 2) IN
    IF slice.tag = "panic" THEN slice ELSE from_str_radix(slice.value)

\* decode_image_id: Some(id), None, or the panic of the first slice that
\* is reached and does not lie on character boundaries; the iterator stops
\* at the first element that is an Err.
decode_image_id(hex_str) ==
    IF StrLen(hex_str) # 64 THEN Ok(NoResult)
    ELSE Bind(CharBoundaries(hex_str), LAMBDA boundaries :
         Bind([i \in 1..32 |-> ParsedByte(hex_str, boundaries, i - 1)], LAMBDA parsed :
         IF \E i \in 1..32 : parsed[i].tag # "ok"
         THEN LET first == CHOOSE i \in 1..32 :
                               /\ parsed[i].tag # "ok"
                               /\ \A j \in 1..(i - 1) : parsed[j].tag = "ok"
              IN  IF parsed[first].tag = "panic" THEN parsed[first] ELSE Ok(NoResult)
         ELSE Ok(Some([w \in 1..8 |->
                          from_le_bytes([j \in 1..4 |-> parsed[4 * (w - 1) + j].value])]))))

\* verify_receipt_inner: the value returned, or the panic that leaves it.
verify_receipt_inner(receipt_bytes, image_id_hex) ==
    Bind(decode_image_id(image_id_hex), LAMBDA image_id :
    IF image_id.tag = "panic" THEN image_id
    ELSE IF image_id.value = NoResult THEN Ok(FALSE)
    ELSE LET receipt == receipt_from_bytes(receipt_bytes) IN
         IF receipt.tag = "err" THEN Ok(FALSE)
         ELSE IF receipt_verify(receipt.value, image_id.value.value).tag = "ok"
         THEN Ok(TRUE)
         ELSE Ok(FALSE))

\* verify_receipt: catch_unwind turns a panic of verify_receipt_inner into
\* false where panics unwind; where they abort (the wasm32 target of the
\* crate), the panic leaves verify_receipt.
verify_receipt(receipt_bytes, image_id_hex, unwinds) ==
    Bind(verify_receipt_inner(receipt_bytes, image_id_hex), LAMBDA inner :
    IF inner.tag = "panic" /\ unwinds THEN Ok(FALSE) ELSE inner)

\* The image ids of the model.
ImageIds == {AIP_ZKVM_GUEST_ID, OtherImageId}

\* The first characters of an image id string that the model replaces.
MaxPatchPosition == 4

\* Characters put in the place of a hex digit: no hex digit, a sign, an
\* upper-case digit, a blank, a character of two bytes.
PatchChars == {"g", "+", "-", "F", " ", "U+00E9"}

\* The strings handed to the verifier as image_id_hex: the hex form of an
\* image id; that with one character replaced; with two characters replaced
\* by one of two bytes; with one character less or more; the empty string.
ImageIdStrings ==
    UNION {LET hex == ImageIdHex(id) IN
           {hex, SubSeq(hex, 1, 63), hex \o <<"0">>, <<>>}
           \cup {[hex EXCEPT ![at] = c] : at \in 1..MaxPatchPosition, c \in PatchChars}
           \cup {SubSeq(hex, 1, at - 1) \o <<"U+00E9">> \o SubSeq(hex, at + 2, 64) :
                     at \in 1..MaxPatchPosition}
           : id \in ImageIds}

\* The byte strings handed to the verifier as receipt_bytes.
VerifierReceipts ==
    {JunkBytes,
     [bincode |-> Receipt(ValidJournal, TRUE)],
     [bincode |-> Receipt(ValidJournal, FALSE)]}

\* A page calls the verifier with a receipt and an image id string.
InitVerifier ==
    /\ v_pc = "start"
    /\ v_receipt_bytes \in VerifierReceipts
    /\ v_image_id_hex \in ImageIdStrings
    /\ v_decoded = NoResult
    /\ v_result = NoResult
    /\ IdleProver
    /\ IdlePure
    /\ IdleGuest
    /\ IdleServer

\* decode_image_id is applied to the image id string.
DecodeImageId ==
    /\ v_pc = "start"
    /\ v_decoded' = decode_image_id(v_image_id_hex)
    /\ v_pc' = "decoded"
    /\ UNCHANGED <<v_receipt_bytes, v_image_id_hex, v_result>>
    /\ UNCHANGED <<t_vars, guest_vars, server_vars, prover_vars>>

\* verify_receipt is called, in a build whose panics unwind or abort.
VerifyReceipt ==
    /\ v_pc = "decoded"
    /\ \E unwinds \in BOOLEAN :
           v_result' = verify_receipt(v_receipt_bytes, v_image_id_hex, unwinds)
    /\ v_pc' = "returned"
    /\ UNCHANGED <<v_receipt_bytes, v_image_id_hex, v_decoded>>
    /\ UNCHANGED <<t_vars, guest_vars, server_vars, prover_vars>>

NextVerifier ==
    \/ DecodeImageId
    \/ VerifyReceipt

SpecVerifier == InitVerifier /\ [][NextVerifier]_vars

-----------------------------------------------------------------------------
(* Properties of the verdict engine (SpecVerdict).                         *)

HasCritical(concerns) ==
    \E i \in 1..Len(concerns) : concerns[i].severity = "critical"

BoundaryCategories ==
    {"prompt_injection", "deceptive_reasoning", "value_misalignment"}

HasHighBoundary(concerns) ==
    \E i \in 1..Len(concerns) :
        /\ concerns[i].severity = "high"
        /\ concerns[i].category \in BoundaryCategories

HasMediumOrHigh(concerns) ==
    \E i \in 1..Len(concerns) : concerns[i].severity \in {"medium", "high"}

\* C1: every concern list that contains a critical concern, in any position
\* and with any category, is given the verdict boundary_violation, and that
\* verdict with the same list is mapped to deny_and_escalate.
C1_CriticalDeniesAndEscalates ==
    HasCritical(t_concerns) =>
        /\ t_pc \in {"derived", "mapped"} => t_verdict = "boundary_violation"
        /\ t_pc = "mapped" => t_action = "deny_and_escalate"

\* a critical concern that is not first and not of a boundary category,
\* behind a medium concern, after both functions ran
C1_Witness ==
    /\ t_pc = "mapped"
    /\ Len(t_concerns) >= 2
    /\ t_concerns[1].severity = "medium"
    /\ t_concerns[Len(t_concerns)].severity = "critical"
    /\ t_concerns[Len(t_concerns)].category = "autonomy_violation"
    /\ t_action = "deny_and_escalate"

\* C2: a list with no critical concern and at least one high concern in
\* prompt_injection, deceptive_reasoning or value_misalignment is given
\* boundary_violation and the action pause_for_review, wherever that concern
\* sits and whatever low/medium/high concerns accompany it.
C2_HighBoundaryPauses ==
    (~HasCritical(t_concerns) /\ HasHighBoundary(t_concerns)) =>
        /\ t_pc \in {"derived", "mapped"} => t_verdict = "boundary_violation"
        /\ t_pc = "mapped" => t_action = "pause_for_review"

\* a high value_misalignment concern behind a high concern of a non-boundary
\* category, after both functions ran
C2_Witness ==
    /\ t_pc = "mapped"
    /\ Len(t_concerns) >= 2
    /\ t_concerns[1].severity = "high"
    /\ t_concerns[1].category = "reasoning_corruption"
    /\ t_concerns[Len(t_concerns)].severity = "high"
    /\ t_concerns[Len(t_concerns)].category = "value_misalignment"
    /\ ~HasCritical(t_concerns)
    /\ t_action = "pause_for_review"

\* C3: a list with no critical concern and no high concern of a boundary
\* category, but with a medium or high concern, is given review_needed and
\* the action log_and_continue.
C3_MediumOrOtherHighReviews ==
    (/\ ~HasCritical(t_concerns)
     /\ ~HasHighBoundary(t_concerns)
     /\ HasMediumOrHigh(t_concerns)) =>
        /\ t_pc \in {"derived", "mapped"} => t_verdict = "review_needed"
        /\ t_pc = "mapped" => t_action = "log_and_continue"

\* a high concern in each of the three non-boundary categories and nothing
\* else, after both functions ran
C3_Witness ==
    /\ t_pc = "mapped"
    /\ Len(t_concerns) >= 1
    /\ \A i \in 1..Len(t_concerns) :
            /\ t_concerns[i].severity = "high"
            /\ t_concerns[i].category \notin BoundaryCategories
    /\ \E i \in 1..Len(t_concerns) : t_concerns[i].category = "undeclared_intent"
    /\ t_action = "log_and_continue"

\* C4: the empty list and every list of low concerns only are given clear and
\* the action continue.
C4_EmptyOrLowIsClear ==
    (\A i \in 1..Len(t_concerns) : t_concerns[i].severity = "low") =>
        /\ t_pc \in {"derived", "mapped"} => t_verdict = "clear"
        /\ t_pc = "mapped" => t_action = "continue"

\* a non-empty list of low concerns that includes a boundary category, after
\* both functions ran
C4_Witness ==
    /\ t_pc = "mapped"
    /\ Len(t_concerns) >= 2
    /\ \A i \in 1..Len(t_concerns) : t_concerns[i].severity = "low"
    /\ \E i \in 1..Len(t_concerns) : t_concerns[i].category = "prompt_injection"
    /\ t_action = "continue"

\* Other texts for description and evidence.
OtherDescription == <<"o", "t", "h", "e", "r">>
OtherEvidence == <<"{", "e", "}">>

\* The list reordered by the permutation p of its indices, with description
\* and evidence kept (relabel = FALSE) or replaced (relabel = TRUE).
Rearranged(concerns, p, relabel) ==
    [i \in 1..Len(concerns) |->
        IF relabel
        THEN Concern(concerns[p[i]].category, concerns[p[i]].severity,
                     OtherDescription, OtherEvidence)
        ELSE concerns[p[i]]]

\* C5: derive_verdict gives every reordering of a list the verdict it gives
\* the list, also when the descriptions and evidence differ.
C5_VerdictIgnoresOrderAndText ==
    t_pc = "derived" =>
        \A p \in Permutations(1..Len(t_concerns)) : \A relabel \in BOOLEAN :
            derive_verdict(Rearranged(t_concerns, p, relabel)) = t_verdict

\* a list whose scan returns early at its last concern and sets the flag
\* before, so that reordering changes where the scan stops
C5_Witness ==
    /\ t_pc = "derived"
    /\ Len(t_concerns) >= 2
    /\ t_concerns[1].severity = "medium"
    /\ t_concerns[1].category = "value_misalignment"
    /\ t_concerns[Len(t_concerns)].severity = "high"
    /\ t_concerns[Len(t_concerns)].category = "prompt_injection"
    /\ t_verdict = "boundary_violation"

-----------------------------------------------------------------------------
(* Properties of the guest (Spec).                                         *)

\* The inputs that differ from inp at most in what the analysis document
\* states as verdict, confidence and reasoning_summary: the same wrapper, the
\* same concerns, the same pass-through fields.
InputVariants(inp) ==
    UNION {
        {[inp EXCEPT !.analysis_json = wr[1][1] \o other.text \o wr[1][2]] :
            other \in {row \in DocumentTable :
                          row.doc.concerns = wr[2].doc.concerns}} :
        wr \in {x \in Wrappers \X DocumentTable :
                   /\ Len(inp.analysis_json) =
                          Len(x[1][1]) + Len(x[2].text) + Len(x[1][2])
                   /\ inp.analysis_json = x[1][1] \o x[2].text \o x[1][2]}}

\* C6: the output does not depend on the stated verdict, the confidence or
\* the reasoning summary: when a run has committed, the guest run on any
\* input that differs only in those commits the same GuestOutput, and when a
\* run has aborted, so does the guest on every such input.
C6_OutputIgnoresStatedVerdict ==
    /\ pc = "committed" =>
           \A alt \in InputVariants(host_input) :
               guest_main(alt) = Ok(journal[1])
    /\ pc = "aborted" =>
           \A alt \in InputVariants(host_input) :
               guest_main(alt).tag = "panic"

\* a committed run whose document states boundary_violation while the
\* concerns give clear, and which has variants stating something else
C6_Witness ==
    /\ pc = "committed"
    /\ response.verdict = WireName("boundary_violation")
    /\ verdict = "clear"
    /\ journal[1].verdict = "clear"
    /\ Cardinality(InputVariants(host_input)) >= 3

\* C7: every committed output carries the thinking_hash, card_hash,
\* values_hash and model of the input the host wrote, whatever they are.
C7_PassThroughFieldsVerbatim ==
    \A k \in 1..Len(journal) :
        /\ journal[k].thinking_hash = host_input.thinking_hash
        /\ journal[k].card_hash = host_input.card_hash
        /\ journal[k].values_hash = host_input.values_hash
        /\ journal[k].model = host_input.model

\* a committed run with an empty thinking_hash and model and a card_hash
\* that is not hexadecimal, on a document inside a code fence
C7_Witness ==
    /\ pc = "committed"
    /\ Len(journal) = 1
    /\ host_input.thinking_hash = ""
    /\ host_input.card_hash = "not hex!"
    /\ host_input.model = ""
    /\ Head(host_input.analysis_json) = "~"
    /\ journal[1].card_hash = "not hex!"

\* C8: the guest commits exactly once when the extracted JSON parses as an
\* AnalysisResponse and never when it does not, and the commit is the last
\* step, after truncation, verdict, action and fingerprint.
C8_CommitsOnceIffParsed ==
    /\ Len(journal) <= 1
    /\ Len(journal) = 1 =>
           /\ pc = "committed"
           /\ journal[1] = GuestOutput(verdict, action, concerns_hash, input)
    /\ pc \in {"committed", "aborted"} =>
           (Len(journal) = 1 <=> from_str(json_str).tag = "ok")

\* C14: extract_json returns the text from the first `{` to the last `}`
\* inclusive when both exist and the first `{` is not after the last `}`, and
\* the input unchanged otherwise; a document wrapped in leading text without
\* `{` and trailing text without `}` is returned exactly.
C14_ExtractJsonFirstToLastBrace ==
    pc \notin {"idle", "start", "read"} =>
        LET a == input.analysis_json
            firsts == {i \in 1..Len(a) :
                          a[i] = "{" /\ \A k \in 1..(i - 1) : a[k] # "{"}
            lasts == {j \in 1..Len(a) :
                         a[j] = "}" /\ \A k \in (j + 1)..Len(a) : a[k] # "}"}
        IN  /\ IF \E i \in firsts, j \in lasts : i <= j
               THEN \E i \in firsts, j \in lasts : json_str = SubSeq(a, i, j)
               ELSE json_str = a
            /\ \A w \in Wrappers :
                   LET from == Len(w[1]) + 1
                       to == Len(a) - Len(w[2])
                   IN  /\ \A k \in 1..Len(w[1]) : w[1][k] # "{"
                       /\ \A k \in 1..Len(w[2]) : w[2][k] # "}"
                       /\ from < to
                       /\ SubSeq(a, 1, Len(w[1])) = w[1]
                       /\ SubSeq(a, to + 1, Len(a)) = w[2]
                       /\ a[from] = "{" /\ a[to] = "}"
                       => json_str = SubSeq(a, from, to)

\* a document inside a code fence has been extracted
C14_Witness ==
    /\ pc = "extracted"
    /\ Len(input.analysis_json) > 8
    /\ SubSeq(input.analysis_json, 1, 8) = <<"~", "~", "~", "j", "s", "o", "n", "\n">>
    /\ json_str # input.analysis_json
    /\ \E row \in DocumentTable : json_str = row.text

-----------------------------------------------------------------------------
(* Properties of hash_concerns (SpecHash).                                 *)

\* C9: derive_verdict, map_verdict_to_action and hash_concerns return a value
\* for every concern list and never abort, also when evidence is longer than
\* 200 and holds multi-byte characters.
C9_PureComponentsNeverAbort ==
    /\ t_pc \in {"derived", "mapped", "hashed", "panicked"} => t_verdict \in Verdict
    /\ t_pc \in {"mapped", "hashed", "panicked"} => t_action \in Action
    /\ t_pc # "panicked"
    /\ t_hash.tag # "panic"

\* The first n characters of s.
FirstChars(s, n) == SubSeq(s, 1, IF Len(s) < n THEN Len(s) ELSE n)

\* The normalized records with every evidence cut to its first 200
\* characters.
CutByCharacters(concerns) ==
    [i \in 1..Len(concerns) |->
        NormalizedConcern(concerns[i],
                          FirstChars(concerns[i].evidence, MAX_EVIDENCE_LENGTH))]

SomeSuffixes == {<<"y">>, <<"y", "z">>, <<"U+00E9", "z">>}

\* C10: whenever hash_concerns returns, the hashed record of each concern
\* holds the first 200 characters of its evidence (the whole evidence when it
\* has at most 200 characters), and lengthening evidence of at least 200
\* characters beyond its first 200 does not change the fingerprint.
C10_EvidenceCutAt200Characters ==
    t_pc = "hashed" =>
        /\ t_hash = Ok(Sha256Hex(NormalizedJson(CutByCharacters(t_concerns))))
        /\ \A i \in 1..Len(t_concerns) : \A suffix \in SomeSuffixes :
               LET e == t_concerns[i].evidence
                   head == FirstChars(e, MAX_EVIDENCE_LENGTH)
               IN  Len(e) >= MAX_EVIDENCE_LENGTH =>
                       hash_concerns([t_concerns EXCEPT ![i].evidence = head \o suffix])
                           = hash_concerns([t_concerns EXCEPT ![i].evidence = head])

-----------------------------------------------------------------------------
(* Properties of the hashed string (SpecShape).                            *)

\* The string handed to SHA-256 by the hash_concerns call of the harness.
HashedString == t_hash.value.sha256_hex_of

\* The number of backslashes that immediately precede position q of s.
BackslashesBefore(s, q) ==
    CHOOSE k \in 0..(q - 1) :
        /\ \A j \in 1..k : s[q - j] = "\\"
        /\ k = q - 1 \/ s[q - k - 1] # "\\"

\* The first quote at or after position from that no backslash escapes, 0 if
\* there is none.
ClosingQuote(s, from) ==
    LET qs == {q \in from..Len(s) :
                   s[q] = "\"" /\ BackslashesBefore(s, q) % 2 = 0}
    IN  IF qs = {} THEN 0 ELSE CHOOSE q \in qs : \A r \in qs : q <= r

ReadFailed == [ok |-> FALSE]

\* A JSON string literal read at position pos: its raw contents and the
\* position after it.
ReadString(s, pos) ==
    IF pos > Len(s) \/ s[pos] # "\""
    THEN ReadFailed
    ELSE LET q == ClosingQuote(s, pos + 1) IN
         IF q = 0 THEN ReadFailed
         ELSE [ok |-> TRUE, raw |-> SubSeq(s, pos + 1, q - 1), next |-> q + 1]

\* The members "key":"value" of an object read from position pos up to and
\* including its closing brace.
RECURSIVE ReadMembers(_, _)
ReadMembers(s, pos) ==
    LET key == ReadString(s, pos) IN
    IF ~key.ok \/ key.next > Len(s) \/ s[key.next] # ":" THEN ReadFailed
    ELSE LET val == ReadString(s, key.next + 1) IN
         IF ~val.ok \/ val.next > Len(s) THEN ReadFailed
         ELSE IF s[val.next] = "}"
              THEN [ok |-> TRUE, members |-> <<<<key.raw, val.raw>>>>,
                    next |-> val.next + 1]
         ELSE IF s[val.next] # "," THEN ReadFailed
         ELSE LET rest == ReadMembers(s, val.next + 1) IN
              IF ~rest.ok THEN ReadFailed
              ELSE [ok |-> TRUE,
                    members |-> <<<<key.raw, val.raw>>>> \o rest.members,
                    next |-> rest.next]

\* The objects of an array read from position pos up to and including its
\* closing bracket.
RECURSIVE ReadElements(_, _)
ReadElements(s, pos) ==
    IF pos > Len(s) \/ s[pos] # "{" THEN ReadFailed
    ELSE LET obj == ReadMembers(s, pos + 1) IN
         IF ~obj.ok \/ obj.next > Len(s) THEN ReadFailed
         ELSE IF s[obj.next] = "]"
              THEN [ok |-> TRUE, objects |-> <<obj.members>>, next |-> obj.next + 1]
         ELSE IF s[obj.next] # "," THEN ReadFailed
         ELSE LET rest == ReadElements(s, obj.next + 1) IN
              IF ~rest.ok THEN ReadFailed
              ELSE [ok |-> TRUE, objects |-> <<obj.members>> \o rest.objects,
                    next |-> rest.next]

\* s read as one JSON array of objects with string members, nothing before
\* or after it.
ReadArray(s) ==
    IF s = <<"[", "]">> THEN [ok |-> TRUE, objects |-> <<>>]
    ELSE IF Len(s) < 2 \/ s[1] # "[" THEN ReadFailed
    ELSE LET r == ReadElements(s, 2) IN
         IF r.ok /\ r.next = Len(s) + 1
         THEN [ok |-> TRUE, objects |-> r.objects]
         ELSE ReadFailed

\* The string a JSON string literal with the given raw contents denotes.
RECURSIVE Unescape(_)
Unescape(raw) ==
    IF raw = <<>> THEN <<>>
    ELSE IF raw[1] = "\\" /\ Len(raw) >= 2
    THEN <<(CASE raw[2] = "n" -> "\n" [] raw[2] = "t" -> "\t" [] OTHER -> raw[2])>>
             \o Unescape(SubSeq(raw, 3, Len(raw)))
    ELSE <<raw[1]>> \o Unescape(Tail(raw))

SnakeCaseLiterals ==
    {<<"p", "r", "o", "m", "p", "t", "_", "i", "n", "j", "e", "c", "t", "i", "o", "n">>,
     <<"u", "n", "d", "e", "c", "l", "a", "r", "e", "d", "_", "i", "n", "t", "e", "n", "t">>,
     <<"h", "i", "g", "h">>, <<"l", "o", "w">>}

\* The hashed string is a JSON array with one object per concern, in input
\* order, each with the members category, severity, description, evidence in
\* that order, the enums as wire literals and the description verbatim; `[]`
\* for the empty list.
HashedStringShape ==
    LET arr == ReadArray(HashedString) IN
    /\ arr.ok
    /\ Len(arr.objects) = Len(t_concerns)
    /\ \A i \in 1..Len(t_concerns) :
           LET m == arr.objects[i] IN
           /\ Len(m) = 4
           /\ <<m[1][1], m[2][1], m[3][1], m[4][1]>>
                  = <<KeyCategory, KeySeverity, KeyDescription, KeyEvidence>>
           /\ m[1][2] = WireName(t_concerns[i].category)
           /\ m[2][2] = WireName(t_concerns[i].severity)
           /\ {m[1][2], m[2][2]} \subseteq SnakeCaseLiterals
           /\ Unescape(m[3][2]) = t_concerns[i].description
    /\ t_concerns = <<>> => HashedString = <<"[", "]">>

\* The concern list with the concerns at positions i and j exchanged.
Exchanged(concerns, i, j) ==
    [concerns EXCEPT ![i] = concerns[j], ![j] = concerns[i]]

NormalizedOf(c) == NormalizedConcern(c, TruncatedEvidence(c.evidence).value)

RECURSIVE ConcatFrom(_, _)
ConcatFrom(items, i) ==
    IF i > Len(items) THEN <<>> ELSE items[i] \o ConcatFrom(items, i + 1)

\* C12: each concern is serialized as a JSON object with its keys in sorted
\* order, and the string given to SHA-256 is the concatenation of these
\* per-concern texts.
C12_SortedKeysConcatenated ==
    t_pc = "hashed" =>
        HashedString =
            ConcatFrom([i \in 1..Len(t_concerns) |->
                           NormalizedConcernJsonSortedKeys(NormalizedOf(t_concerns[i]))], 1)

-----------------------------------------------------------------------------
(* Properties of the proving service (SpecServer, SpecTasks, SpecApi).     *)

AllowedTransitions ==
    {<<"pending", "proving">>, <<"proving", "complete">>,
     <<"proving", "failed">>, <<"failed", "proving">>}

\* C15: every change of a row's status is pending -> proving, proving ->
\* complete, proving -> failed or failed -> proving (so a complete row never
\* changes status again), and updated_at never decreases.
C15_StatusTransitions ==
    [][\A id \in DOMAIN verdict_proofs :
           LET old == verdict_proofs[id]
               new == verdict_proofs'[id]
           IN  old # NoResult /\ new # NoResult =>
                   /\ old.status # new.status =>
                          <<old.status, new.status>> \in AllowedTransitions
                   /\ new.updated_at >= old.updated_at]_vars

\* C16: when an authorized POST /prove responds, the row of its proof_id is
\* in status proving, exactly one task has been scheduled for that proof_id
\* and has not run yet, and the response is {proof_id, status: "proving"}.
C16_ProveRespondsWithRowProving ==
    [][\A i \in 1..Len(requests) :
           /\ requests[i].endpoint = "POST /prove"
           /\ requests[i].pc # "responded"
           /\ requests'[i].pc = "responded"
           /\ check_auth(requests[i].headers, prover_key).tag = "ok"
           => LET id == requests[i].body.proof_id IN
              /\ requests'[i].response =
                     Some([status |-> 200,
                           body |-> [proof_id |-> id, status |-> "proving"]])
              /\ Len(tasks') = Len(tasks) + 1
              /\ tasks'[Len(tasks')].proof_id = id
              /\ tasks'[Len(tasks')].pc = "spawned"
              /\ verdict_proofs'[id] # NoResult =>
                     verdict_proofs'[id].status = "proving"]_vars

\* The tasks in flight for a proof_id: spawned and not yet past their
\* terminal store call.
InFlight(id) == {k \in 1..Len(tasks) : tasks[k].proof_id = id /\ tasks[k].pc # "done"}

\* C17: at any time at most one proving task is in flight for a proof_id.
C17_OneTaskPerProof ==
    \A id \in ProofIds : Cardinality(InFlight(id)) <= 1

C19_VerifiedFlagAndTimestamp ==
    \A k \in 1..Len(tasks) :
        LET task == tasks[k] IN
        /\ task.pc = "calling" =>
               /\ \A n \in 1..Len(task.run.calls) :
                      LET call == task.run.calls[n] IN
                      call.function = "complete_proof" =>
                          /\ call.verified = call.receipt_bytes.bincode.verifies
                          /\ call.verified_at.tag = "some" <=> call.verified
               /\ task.run.proved /\ task.run.serialized /\ ~task.run.verified =>
                      /\ task.run.calls[1].function = "complete_proof"
                      /\ task.run.calls[1].verified = FALSE
        /\ \A n \in 1..Len(task.issued) :
               task.issued[n].function = "complete_proof" =>
                   /\ task.issued[n].verified = task.run.verified
                   /\ task.issued[n].verified_at.tag = "some" <=> task.issued[n].verified

\* a task has completed a proof whose self-verification failed, and another
\* one a proof that verified
C19_Witness ==
    \E k, l \in 1..Len(tasks) :
        /\ tasks[k].pc = "done" /\ tasks[l].pc = "done"
        /\ tasks[k].issued[1].function = "complete_proof"
        /\ tasks[k].issued[1].verified = FALSE
        /\ tasks[l].issued[1].function = "complete_proof"
        /\ tasks[l].issued[1].verified_at.tag = "some"

\* C20: with a prover key configured, a request to POST /prove or POST
\* /prove/verify whose X-Prover-Key header is missing or does not match is
\* answered with HTTP status 401.
C20_UnauthorizedIs401 ==
    prover_key.tag = "some" =>
        \A i \in 1..Len(requests) :
            LET key == requests[i].headers.x_prover_key IN
            /\ requests[i].pc = "responded"
            /\ key.tag = "none" \/ key.value # prover_key.value
            => requests[i].response.value.status = 401

\* A request that has been handled was rejected by check_auth.
Rejected(req) ==
    IF req.endpoint = "POST /prove"
    THEN req.pc = "responded" /\ req.response.value.status = 401
    ELSE req.pc = "responded" /\ req.response.value.body.error = Some("Unauthorized")

\* C21: with a prover key configured, a request passes check_auth only if
\* its X-Prover-Key header is present and its bytes are exactly the
\* configured key; a header that is absent, differs in a byte or is not
\* visible ASCII is rejected, for every configured key.
C21_AcceptsOnlyExactKeyBytes ==
    prover_key.tag = "some" =>
        \A i \in 1..Len(requests) :
            LET req == requests[i]
                header == req.headers.x_prover_key
            IN  req.pc # "received" =>
                    /\ ~Rejected(req) =>
                           header.tag = "some" /\ header.value = prover_key.value
                    /\ header.tag = "none" => Rejected(req)
                    /\ header.tag = "some" /\ to_str(header.value).tag = "err" =>
                           Rejected(req)

\* C22: POST /prove/verify answers every request with a VerifyResponse: with
\* valid = false, a non-empty error and no verdict, action or concerns_hash
\* after a failure, and with valid = true only together with verdict,
\* action and concerns_hash and without error.
C22_VerifyAlwaysAnswersVerifyResponse ==
    \A i \in 1..Len(requests) :
        LET req == requests[i] IN
        req.endpoint = "POST /prove/verify" /\ req.pc = "responded" =>
            /\ "body" \in DOMAIN req.response.value
            /\ LET r == req.response.value.body IN
               IF r.valid
               THEN /\ r.verdict.tag = "some" /\ r.action.tag = "some"
                    /\ r.concerns_hash.tag = "some" /\ r.error.tag = "none"
               ELSE /\ r.verdict.tag = "none" /\ r.action.tag = "none"
                    /\ r.concerns_hash.tag = "none"
                    /\ r.error.tag = "some" /\ r.error.value # ""

\* C23: a receipt that fails to deserialize in POST /prove/verify is
\* answered with a 400-class status.
C23_UndecodableReceiptIs4xx ==
    \A i \in 1..Len(requests) :
        LET req == requests[i] IN
        /\ req.endpoint = "POST /prove/verify" /\ req.pc = "responded"
        /\ Json(req.body).tag = "ok"
        /\ check_auth(req.headers, prover_key).tag = "ok"
        /\ base64_decode(req.body.receipt).tag = "ok"
        /\ receipt_from_bytes(base64_decode(req.body.receipt).value).tag = "err"
        => req.response.value.status \in 400..499

\* The receipt of a VerifyRequest base64-decodes, deserializes and verifies
\* against the guest image id of the service.
ReceiptIsGood(body) ==
    /\ base64_decode(body.receipt).tag = "ok"
    /\ receipt_from_bytes(base64_decode(body.receipt).value).tag = "ok"
    /\ receipt_verify(receipt_from_bytes(base64_decode(body.receipt).value).value,
                      AIP_ZKVM_GUEST_ID).tag = "ok"

\* The requests to POST /prove/verify that the handler has answered.
VerifyAnswered ==
    {i \in 1..Len(requests) :
        /\ requests[i].endpoint = "POST /prove/verify"
        /\ requests[i].pc = "responded"
        /\ Json(requests[i].body).tag = "ok"}

\* The response to the request with another image_id member.
AnswerWith(req, id) ==
    handle_verify(req.headers, [req.body EXCEPT !.image_id = id], prover_key)

StatusStep(i) ==
    /\ requests[i].endpoint = "GET /prove/{proof_id}"
    /\ requests[i].pc = "received"
    /\ requests'[i].pc = "responded"

\* The answer that reports the row of the request's id as it is stored when
\* the request is handled: 404 exactly when there is no row, and otherwise
\* the row's status, proving_duration_ms, verified and error_message.
ReportsStoredRow(i) ==
    LET id == requests[i].body.proof_id
        row == verdict_proofs[id]
        answer == requests'[i].response.value
    IN  /\ answer.status = 404 <=> row = NoResult
        /\ row # NoResult =>
               /\ answer.status = 200
               /\ answer.body = ProofStatusResponse(id, row.status,
                                                    row.proving_duration_ms,
                                                    row.verified, row.error_message)

ProveUpdateFailed(i) ==
    /\ requests[i].endpoint = "POST /prove"
    /\ requests[i].pc = "received"
    /\ requests'[i].pc # "received"
    /\ check_auth(requests[i].headers, prover_key).tag = "ok"
    /\ verdict_proofs[requests[i].body.proof_id] # NoResult
    /\ verdict_proofs[requests[i].body.proof_id].status # "proving"
    /\ verdict_proofs' = verdict_proofs

\* C26: a request whose statement the store failed to execute is answered
\* 500, on GET /prove/{proof_id} and on POST /prove alike.
C26_StoreErrorIs500 ==
    [][\A i \in 1..Len(requests) :
           /\ StatusStep(i) /\ requests'[i].statement.tag = "err"
                  => requests'[i].response = Some([status |-> 500])
           /\ ProveUpdateFailed(i)
                  => requests'[i].response = Some([status |-> 500])]_vars

\* The guest input made of the stored input data of a row.
StoredGuestInput(stored) ==
    GuestInputOf(stored.analysis_json.value,
                 unwrap_or(stored.thinking_hash, ""),
                 unwrap_or(stored.card_hash, ""),
                 unwrap_or(stored.values_hash, ""),
                 unwrap_or(stored.model, "unknown"))

\* C27: the retry loop takes at most five rows from get_pending_proofs; a
\* returned row whose analysis_json is absent or empty keeps its status and
\* gets no task; every other returned row is in status proving once the
\* loop has sent its UPDATE, and then exactly one task is spawned for it,
\* with the row's stored inputs.
C27_RetryIteration ==
    [][/\ retry.pc = "sleeping" /\ retry'.pc = "iterating"
           => Len(retry'.rows) <= PendingLimit
       /\ retry.pc = "iterating" /\ retry' # retry =>
              LET row == Head(retry.rows) IN
              IF row.analysis_json = NoResult \/ row.analysis_json = Some(<<>>)
              THEN /\ retry'.pc # "marked"
                   /\ verdict_proofs' = verdict_proofs
                   /\ tasks' = tasks
              ELSE /\ retry'.pc = "marked"
                   /\ verdict_proofs'[row.proof_id].status = "proving"
                   /\ tasks' = tasks
       /\ retry.pc = "marked" /\ retry' # retry =>
              LET id == Head(retry.rows).proof_id IN
              tasks' = Append(tasks,
                              SpawnedTask(id, StoredGuestInput(verdict_proofs[id].stored),
                                          "retry_loop"))]_vars

\* The number of times the retry loop has sent its UPDATE to proving for a
\* proof: once for each task it has spawned, and once more when it is
\* between the UPDATE and the spawn.
RetryMoves(id) ==
    Cardinality({k \in 1..Len(tasks) :
                    tasks[k].origin = "retry_loop" /\ tasks[k].proof_id = id})
    + (IF retry.pc = "marked" /\ Head(retry.rows).proof_id = id THEN 1 ELSE 0)

IsHex64(hex_str) ==
    /\ Len(hex_str) = 64
    /\ \A i \in 1..64 : to_digit(hex_str[i]) # NoResult

\* C29: decode_image_id turns the hex form of every image id back into that
\* id, and rejects every string that is not exactly 64 hexadecimal digits.
C29_DecodeInvertsImageIdHex ==
    v_pc # "start" =>
        /\ \A id \in ImageIds :
               v_image_id_hex = ImageIdHex(id) => v_decoded = Ok(Some(id))
        /\ ~IsHex64(v_image_id_hex) => v_decoded = Ok(NoResult)

\* C30: verify_receipt always returns; it returns true only when the image
\* id decodes, the receipt deserializes and verifies against that id, and
\* false for every other input.
C30_VerifyReceiptNeverRaises ==
    v_pc = "returned" =>
        /\ v_result.tag = "ok"
        /\ v_result.value <=>
               /\ v_decoded.tag = "ok" /\ v_decoded.value # NoResult
               /\ receipt_from_bytes(v_receipt_bytes).tag = "ok"
               /\ receipt_verify(receipt_from_bytes(v_receipt_bytes).value,
                                 v_decoded.value.value).tag = "ok"

\* C32: map_verdict_to_action returns continue for clear and log_and_continue
\* for review_needed whatever the concerns are; for boundary_violation it
\* returns deny_and_escalate exactly when the list has a critical concern and
\* pause_for_review otherwise.
C32_ActionReadsConcernsOnlyForBoundaryViolation ==
    t_pc = "mapped" =>
        /\ t_verdict = "clear" => t_action = "continue"
        /\ t_verdict = "review_needed" => t_action = "log_and_continue"
        /\ t_verdict = "boundary_violation" =>
               /\ t_action = "deny_and_escalate" <=> HasCritical(t_concerns)
               /\ ~HasCritical(t_concerns) => t_action = "pause_for_review"

\* the verdict clear passed with a list that holds a critical concern is
\* mapped to continue
C32_Witness ==
    /\ t_pc = "mapped"
    /\ t_verdict = "clear"
    /\ HasCritical(t_concerns)
    /\ t_action = "continue"

C33_RetryTaskIsProveTask ==
    \A k \in 1..Len(tasks) :
        tasks[k].pc \in {"spawned", "calling"} =>
            \A outcome \in ProverOutcomes, serializes \in BOOLEAN :
                retry_proving_task(tasks[k].proof_id, tasks[k].input,
                                   outcome, serializes, clock).calls
                = proving_task(tasks[k].proof_id, tasks[k].input,
                               outcome, serializes, clock).calls

\* a task of retry_loop and a task of handle_prove that were given the same
\* inputs have both proved and go on to the same store call
C33_Witness ==
    \E j, k \in 1..Len(tasks) :
        /\ tasks[j].origin = "retry_loop" /\ tasks[k].origin = "handle_prove"
        /\ tasks[j].pc = "calling" /\ tasks[k].pc = "calling"
        /\ tasks[j].input = tasks[k].input
        /\ tasks[j].run.calls = tasks[k].run.calls
        /\ tasks[j].run.calls[1].function = "complete_proof"


\* C34: the retry loop never stops: whatever its self-ping, its query, its
\* UPDATE and the tasks it spawned do, and without any step of a task being
\* taken, the loop starts another iteration again and again.
C34_RetryLoopNeverStops == []<>(retry.pc = "woken")

\* The loop has started another iteration while a task it spawned has not
\* ended.
C34_Witness ==
    /\ retry.pc = "woken"
    /\ \E k \in 1..Len(tasks) : tasks[k].origin = "retry_loop" /\ tasks[k].pc # "done"

\* C35: every row that POST /prove set to proving eventually is complete or
\* failed, when handlers and tasks are scheduled fairly and the prover call
\* returns, also when the task's complete_proof or fail_proof call returns
\* an error.
C35_ProvingRowsEnd ==
    \A id \in ProofIds :
        (verdict_proofs[id] # NoResult /\ verdict_proofs[id].status = "proving")
            ~> (verdict_proofs[id] # NoResult
                    /\ verdict_proofs[id].status \in {"complete", "failed"})

\* A POST /prove request that check_auth rejects.
Unauthorized(req) ==
    /\ req.endpoint = "POST /prove"
    /\ check_auth(req.headers, prover_key).tag = "err"

\* C36: a POST /prove that authentication rejects has no effect: the step
\* that handles it answers 401 and leaves every row (status and updated_at
\* included) and the tasks as they were, and the answered request takes no
\* further step, so that no task is ever spawned for it.
C36_RejectedProveHasNoEffect ==
    [][\A i \in 1..Len(requests) :
          Unauthorized(requests[i]) =>
              /\ requests[i].pc = "received" /\ requests'[i] # requests[i] =>
                     /\ requests'[i].pc = "responded"
                     /\ requests'[i].response = Some([status |-> 401])
                     /\ verdict_proofs' = verdict_proofs
                     /\ tasks' = tasks
              /\ requests[i].pc # "received" => requests'[i] = requests[i]]_vars

\* A rejected POST /prove for a row of the store has been answered; the row
\* is pending and there is no task.
C36_Witness ==
    \E i \in 1..Len(requests) :
        /\ Unauthorized(requests[i])
        /\ requests[i].response = Some([status |-> 401])
        /\ verdict_proofs[requests[i].body.proof_id] # NoResult
        /\ verdict_proofs[requests[i].body.proof_id].status = "pending"
        /\ tasks = <<>>

\* C37: the truncation of the guest before hash_concerns changes nothing:
\* for every concern list that the guest's truncation loop gets through,
\* the fingerprint the guest goes on to compute from the truncated concerns
\* is hash_concerns of the untruncated ones, its verdict and action are
\* those of the untruncated ones, and truncating again is the identity; the
\* loop aborts on exactly the lists on which hash_concerns aborts.
C37_GuestTruncationChangesNothing ==
    t_pc \in {"hashed", "panicked"} =>
        Bind(TruncateConcerns(t_concerns), LAMBDA cut :
            IF cut.tag = "ok"
            THEN LET resp == [concerns |-> cut.value] IN
                 /\ t_pc = "hashed"
                 /\ GuestConcernsHash(resp) = t_hash
                 /\ GuestVerdict(resp) = t_verdict
                 /\ GuestAction(GuestVerdict(resp), resp) = t_action
                 /\ TruncateConcerns(cut.value) = cut
            ELSE t_pc = "panicked")

\* hash_concerns has returned for a list whose evidence the guest's loop
\* cuts: evidence of more than 200 bytes with a character boundary at 200.
C37_Witness ==
    /\ t_pc = "hashed"
    /\ \E i \in 1..Len(t_concerns) : StrLen(t_concerns[i].evidence) > MAX_EVIDENCE_LENGTH
    /\ TruncateConcerns(t_concerns).tag = "ok"
    /\ TruncateConcerns(t_concerns).value # t_concerns

\* clear < review_needed < boundary_violation
VerdictRank(v) ==
    CASE v = "clear" -> 0 [] v = "review_needed" -> 1 [] v = "boundary_violation" -> 2

\* continue < log_and_continue < pause_for_review < deny_and_escalate
ActionRank(a) ==
    CASE a = "continue" -> 0 [] a = "log_and_continue" -> 1
      [] a = "pause_for_review" -> 2 [] a = "deny_and_escalate" -> 3

\* The list with concern c put after its first n concerns.
InsertConcern(concerns, n, c) ==
    SubSeq(concerns, 1, n) \o <<c>> \o SubSeq(concerns, n + 1, Len(concerns))

\* C38: the verdict is monotone in the concerns: putting any concern at any
\* place of a list yields a verdict that is not lower than the list's, and
\* an action of that verdict that is not lower than the list's.
C38_VerdictMonotone ==
    t_pc = "mapped" =>
        \A c \in VerdictConcerns : \A n \in 0..Len(t_concerns) :
            Bind(InsertConcern(t_concerns, n, c), LAMBDA more :
            Bind(derive_verdict(more), LAMBDA v :
                /\ VerdictRank(v) >= VerdictRank(t_verdict)
                /\ ActionRank(map_verdict_to_action(v, more)) >= ActionRank(t_action)))

\* A list with a concern, derived as review_needed and mapped, that a
\* concern put in front of it lifts to boundary_violation.
C38_Witness ==
    /\ t_pc = "mapped"
    /\ t_concerns # <<>>
    /\ t_verdict = "review_needed"
    /\ \E c \in VerdictConcerns :
           derive_verdict(InsertConcern(t_concerns, 0, c)) = "boundary_violation"

====
